---- MODULE Spec2Model ----
(***************************************************************************)
(* pyONHM pipeline orchestrator: date window resolution (utils.py), the    *)
(* gridMET freshness gate (utils.py) and the DockerManager workflows       *)
(* (docker_manager.py).                                                    *)
(*                                                                         *)
(* Encoding of Python values:                                              *)
(*   a date string "YYYY-MM-DD"          the tuple <<y, m, d>>             *)
(*   a time string "YYYY,MM,DD,00,00,00" the tuple <<y, m, d, 0, 0, 0>>    *)
(*   the empty string ""                 the empty tuple <<>>              *)
(*   None (and an absent dictionary key) the tuple <<-1>>                  *)
(*   a datetime / date object            its proleptic Gregorian ordinal   *)
(***************************************************************************)
EXTENDS Integers, Sequences, FiniteSets, TLC

None == << -1 >>
EmptyStr == << >>

\* ------------------------------------------------------------------------
\* Calendar arithmetic of datetime (strptime, + timedelta, strftime)
\* ------------------------------------------------------------------------

IsLeap(y) == (y % 4 = 0) /\ ((y % 100 # 0) \/ (y % 400 = 0))

DaysInMonth(y, m) ==
    IF m = 2 THEN (IF IsLeap(y) THEN 29 ELSE 28)
    ELSE IF m \in {4, 6, 9, 11} THEN 30 ELSE 31

\* _DAYS_BEFORE_MONTH of a non-leap year
DaysBeforeMonthTable == <<0, 31, 59, 90, 120, 151, 181, 212, 243, 273, 304, 334>>

\* _DAYS_IN_MONTH of a non-leap year
DaysInMonthTable == <<31, 28, 31, 30, 31, 30, 31, 31, 30, 31, 30, 31>>

DaysBeforeMonth(y, m) ==
    DaysBeforeMonthTable[m] + (IF m > 2 /\ IsLeap(y) THEN 1 ELSE 0)

DaysBeforeYear(y) ==
    (y - 1) * 365 + ((y - 1) \div 4) - ((y - 1) \div 100) + ((y - 1) \div 400)

\* a well-formed "%Y-%m-%d" string
IsDateStr(s) ==
    /\ Len(s) = 3
    /\ s[1] \in 1..9999
    /\ s[2] \in 1..12
    /\ s[3] >= 1
    /\ s[3] <= DaysInMonth(s[1], s[2])

\* datetime.strptime(s, "%Y-%m-%d") as an ordinal (the caller checks IsDateStr:
\* strptime raises TypeError on None and ValueError on a malformed string)
strptime(s) == DaysBeforeYear(s[1]) + DaysBeforeMonth(s[1], s[2]) + s[3]

\* the year, month and day of an ordinal (datetime's _ord2ymd)
Ord2Ymd(ord) ==
    LET n0   == ord - 1
        n400 == n0 \div 146097
        r400 == n0 % 146097
        n100 == r400 \div 36524
        r100 == r400 % 36524
        n4   == r100 \div 1461
        r4   == r100 % 1461
        n1   == r4 \div 365
        r1   == r4 % 365
        year == n400 * 400 + 1 + n100 * 100 + n4 * 4 + n1
    IN  IF n1 = 4 \/ n100 = 4
        THEN <<year - 1, 12, 31>>
        ELSE LET leap  == (n1 = 3) /\ ((n4 # 24) \/ (n100 = 3))
                 m0    == (r1 + 50) \div 32
                 prec0 == DaysBeforeMonthTable[m0]
                              + (IF m0 > 2 /\ leap THEN 1 ELSE 0)
                 month == IF prec0 > r1 THEN m0 - 1 ELSE m0
                 prec  == IF prec0 > r1
                          THEN prec0 - (DaysInMonthTable[month]
                                        + (IF month = 2 /\ leap THEN 1 ELSE 0))
                          ELSE prec0
             IN  <<year, month, r1 - prec + 1>>

\* the year, month and day of every day of the years the modelled runs fall
\* into, computed once
Ymd == [o \in strptime(<<2022, 1, 1>>)..strptime(<<2025, 12, 31>>) |-> Ord2Ymd(o)]

\* dt.year, dt.month, dt.day
YmdOf(ord) == IF ord \in DOMAIN Ymd THEN Ymd[ord] ELSE Ord2Ymd(ord)

\* dt.strftime("%Y-%m-%d")
strftime_date(ord) == YmdOf(ord)

\* dt.strftime("%Y,%m,%d,00,00,00")
strftime_time(ord) == YmdOf(ord) \o <<0, 0, 0>>

adjust_date_str_off1(date_str, days) == strftime_date(strptime(date_str) + days + 1)

\* utils.adjust_date_str: the adjusted date as a string
adjust_date_str(date_str, days) == strftime_date(strptime(date_str) + days)

adjust_date_sub(date, days) == strptime(date) - days

\* utils.adjust_date: the adjusted date as a date object
adjust_date(date, days) == strptime(date) + days

\* ------------------------------------------------------------------------
\* env_vars: the mutable dictionary the workflows thread through every step
\* ------------------------------------------------------------------------

ConfigKeys == {"PROJECT_ROOT", "OP_DIR", "OP_NCF_IDIR", "CFSV2_NCF_IDIR",
               "CFSV2_NCF_ENSEMBLE_MED_IDIR"}

DateKeys == {"RESTART_DATE", "START_DATE", "END_DATE", "SAVE_RESTART_DATE",
             "SAVE_RESTART_TIME", "NEW_RESTART_DATE", "FRCST_END_DATE",
             "F_END_TIME", "START_TIME", "FRCST_RESTART_DATE",
             "FRCST_START_DATE", "FRCST_START_TIME", "FRCST_END_TIME"}

EnvKeys == ConfigKeys \cup DateKeys

\* a configured path: an opaque non-empty string
PathVal == << 0 >>

\* Python truthiness of a string-or-None value
Falsy(v) == v = None \/ v = EmptyStr

\* the outcome of a call: it returned normally, or an exception left it
Returned(e) == [raised |-> FALSE, env |-> e]
Raised(e) == [raised |-> TRUE, env |-> e]

env_update_dates_save60(restart_date, end_date, env) ==
    LET e1 == [env EXCEPT !["END_DATE"] = end_date,
                          !["RESTART_DATE"] = restart_date]
    IN  IF ~IsDateStr(restart_date) THEN Raised(e1)
        ELSE IF ~IsDateStr(end_date) THEN Raised(e1)
        ELSE Returned([e1 EXCEPT
                 !["START_DATE"] = strftime_date(adjust_date(restart_date, 1)),
                 !["SAVE_RESTART_DATE"] = strftime_date(adjust_date(end_date, -60)),
                 !["FRCST_END_DATE"] = strftime_date(adjust_date(end_date, 29)),
                 !["F_END_TIME"] = strftime_time(adjust_date(end_date, 29)),
                 !["SAVE_RESTART_TIME"] = strftime_time(adjust_date(end_date, -60)),
                 !["NEW_RESTART_DATE"] = restart_date])

\* utils.env_update_dates
env_update_dates(restart_date, end_date, env) ==
    LET e1 == [env EXCEPT !["END_DATE"] = end_date,
                          !["RESTART_DATE"] = restart_date]
    IN  IF ~IsDateStr(restart_date) THEN Raised(e1)
        ELSE LET e2 == [e1 EXCEPT !["START_DATE"] =
                            strftime_date(adjust_date(restart_date, 1))]
             IN  IF ~IsDateStr(end_date) THEN Raised(e2)
                 ELSE LET e3 == [e2 EXCEPT
                              !["SAVE_RESTART_DATE"] =
                                  strftime_date(adjust_date(end_date, -59)),
                              !["FRCST_END_DATE"] =
                                  strftime_date(adjust_date(end_date, 29))]
                      IN  Returned([e3 EXCEPT
                              !["F_END_TIME"] =
                                  strftime_time(strptime(e3["FRCST_END_DATE"])),
                              !["SAVE_RESTART_TIME"] =
                                  strftime_time(adjust_date(end_date, -59)),
                              !["NEW_RESTART_DATE"] = restart_date])

env_update_dates_for_testing_overwrite(restart_date, env, num_days, yesterday) ==
    IF ~IsDateStr(restart_date) THEN Raised(env)
    ELSE LET start_date == adjust_date_str(restart_date, 1)
             end_date   == adjust_date_str(start_date, num_days)
             frcst      == strftime_date(adjust_date(yesterday, 29))
         IN  Returned([env EXCEPT
                 !["START_DATE"] = start_date,
                 !["END_DATE"] = end_date,
                 !["SAVE_RESTART_DATE"] = end_date,
                 !["FRCST_END_DATE"] = frcst,
                 !["F_END_TIME"] = strftime_time(strptime(frcst)),
                 !["SAVE_RESTART_TIME"] = strftime_time(strptime(end_date)),
                 !["NEW_RESTART_DATE"] = restart_date])

\* utils.env_update_dates_for_testing; yesterday is get_yesterday_mst()
\* rendered as a date string
env_update_dates_for_testing(restart_date, env, num_days, yesterday) ==
    IF ~IsDateStr(restart_date) THEN Raised(env)
    ELSE LET start_date == adjust_date_str(restart_date, 1)
             end_date   == adjust_date_str(start_date, num_days)
             e1 == [env EXCEPT !["START_DATE"] = start_date,
                               !["END_DATE"] = end_date,
                               !["SAVE_RESTART_DATE"] = end_date]
             e2 == IF Falsy(e1["FRCST_END_DATE"])
                   THEN [e1 EXCEPT !["FRCST_END_DATE"] =
                             strftime_date(adjust_date(yesterday, 29))]
                   ELSE e1
         IN  IF ~IsDateStr(e2["FRCST_END_DATE"]) THEN Raised(e2)
             ELSE Returned([e2 EXCEPT
                      !["F_END_TIME"] =
                          strftime_time(strptime(e2["FRCST_END_DATE"])),
                      !["SAVE_RESTART_TIME"] =
                          strftime_time(strptime(e2["END_DATE"])),
                      !["NEW_RESTART_DATE"] = restart_date])

env_update_dates_for_restart_update_unguarded(restart_date, env, yesterday) ==
    LET save == strftime_date(adjust_date(yesterday, -59))
        e1 == [env EXCEPT !["RESTART_DATE"] = restart_date,
                          !["START_DATE"] = IF IsDateStr(restart_date)
                                            THEN adjust_date_str(restart_date, 1)
                                            ELSE save,
                          !["SAVE_RESTART_DATE"] = save,
                          !["END_DATE"] = save]
    IN  Returned([e1 EXCEPT
            !["SAVE_RESTART_TIME"] = strftime_time(strptime(save)),
            !["NEW_RESTART_DATE"] = restart_date])

env_update_dates_for_restart_update_from_checkpoint(restart_date, env, yesterday) ==
    LET e1 == [env EXCEPT !["RESTART_DATE"] = restart_date]
    IN  IF ~IsDateStr(restart_date) THEN Raised(e1)
        ELSE LET save == strftime_date(adjust_date(restart_date, -59))
             IN  Returned([e1 EXCEPT
                     !["START_DATE"] = adjust_date_str(restart_date, 1),
                     !["SAVE_RESTART_DATE"] = save,
                     !["END_DATE"] = save,
                     !["SAVE_RESTART_TIME"] = strftime_time(strptime(save)),
                     !["NEW_RESTART_DATE"] = restart_date])

\* utils.env_update_dates_for_restart_update
env_update_dates_for_restart_update(restart_date, env, yesterday) ==
    LET e1 == [env EXCEPT !["RESTART_DATE"] = restart_date]
    IN  IF ~IsDateStr(restart_date) THEN Raised(e1)
        ELSE LET save == strftime_date(adjust_date(yesterday, -59))
                 e2 == [e1 EXCEPT
                           !["START_DATE"] = adjust_date_str(restart_date, 1),
                           !["SAVE_RESTART_DATE"] = save,
                           !["END_DATE"] = save]
             IN  Returned([e2 EXCEPT
                     !["SAVE_RESTART_TIME"] =
                         strftime_time(strptime(e2["END_DATE"])),
                     !["NEW_RESTART_DATE"] = restart_date])

\* utils.env_update_forecast_dates
env_update_forecast_dates(restart_date, env) ==
    LET e1 == [env EXCEPT !["FRCST_RESTART_DATE"] = restart_date]
    IN  IF ~IsDateStr(restart_date) THEN Raised(e1)
        ELSE LET start_date == strftime_date(adjust_date(restart_date, 1))
                 e2 == [e1 EXCEPT
                           !["FRCST_START_DATE"] = start_date,
                           !["FRCST_END_DATE"] =
                               strftime_date(adjust_date(start_date, 27))]
             IN  Returned([e2 EXCEPT
                     !["FRCST_END_TIME"] =
                         strftime_time(strptime(e2["FRCST_END_DATE"])),
                     !["FRCST_START_TIME"] =
                         strftime_time(strptime(e2["FRCST_START_DATE"]))])

\* ------------------------------------------------------------------------
\* Freshness checker
\* ------------------------------------------------------------------------

\* what one feed's dataset.xml request yields: the TimeSpan end date, None
\* (the request or the XML parse failed inside _getxml), or a parsed document
\* without a usable TimeSpan end
Malformed == << -2 >>

\* the six gridMET aggregates queried (data_packets)
NumFeeds == 6

RECURSIVE gridmet_loop(_, _, _, _, _)
gridmet_loop(resps, i, yesterday, status_list, date_list) ==
    IF i > Len(resps)
    THEN [raised |-> FALSE, status_list |-> status_list, date_list |-> date_list]
    ELSE IF resps[i] = None
    THEN gridmet_loop(resps, i + 1, yesterday,
                      Append(status_list, FALSE), Append(date_list, EmptyStr))
    ELSE IF ~IsDateStr(resps[i])
    THEN [raised |-> TRUE, status_list |-> status_list, date_list |-> date_list]
    ELSE LET gm_date == strptime(resps[i])
         IN  gridmet_loop(resps, i + 1, yesterday,
                          Append(status_list, gm_date = strptime(yesterday)),
                          Append(date_list, strftime_date(gm_date)))

gridmet_updated_any_date(resps, yesterday) ==
    LET g == gridmet_loop(resps, 1, yesterday, << >>, << >>)
    IN  [g EXCEPT !.status_list = [i \in 1..Len(g.status_list) |-> TRUE]]

\* utils.gridmet_updated: resps[i] is the response of feed i, yesterday is
\* (now in America/Denver - 1 day).date()
gridmet_updated(resps, yesterday) ==
    gridmet_loop(resps, 1, yesterday, << >>, << >>)

SeqSet(q) == {q[i] : i \in 1..Len(q)}

check_consistency_dates_only(status_list, date_list) ==
    IF date_list = << >>
    THEN [arity |-> 3, status |-> FALSE, date |-> EmptyStr]
    ELSE IF Cardinality(SeqSet(date_list)) = 1
    THEN [arity |-> 2, status |-> TRUE, date |-> date_list[1]]
    ELSE [arity |-> 2, status |-> FALSE, date |-> EmptyStr]

\* utils.check_consistency: the returned tuple (arity 3 on an empty list)
check_consistency(status_list, date_list) ==
    IF date_list = << >>
    THEN [arity |-> 3, status |-> FALSE, date |-> EmptyStr]
    ELSE LET all_dates_consistent == Cardinality(SeqSet(date_list)) = 1
             all_status_consistent == Cardinality(SeqSet(status_list)) = 1
         IN  IF all_status_consistent /\ all_dates_consistent
             THEN [arity |-> 2, status |-> status_list[1], date |-> date_list[1]]
             ELSE [arity |-> 2, status |-> FALSE, date |-> EmptyStr]

\* ------------------------------------------------------------------------
\* Data presence prober
\* ------------------------------------------------------------------------

is_next_day_present_same_day(date_folders, user_date) ==
    IF ~IsDateStr(user_date)
    THEN [raised |-> TRUE, state |-> FALSE, date |-> None]
    ELSE LET next_day_str == strftime_date(strptime(user_date) + 1)
             is_present == \E i \in 1..Len(date_folders) :
                               date_folders[i] = user_date
         IN  [raised |-> FALSE, state |-> is_present,
              date |-> IF is_present THEN next_day_str ELSE None]

\* utils.is_next_day_present: (is_present, next day or None); raises on a
\* user_date strptime rejects
is_next_day_present(date_folders, user_date) ==
    IF ~IsDateStr(user_date)
    THEN [raised |-> TRUE, state |-> FALSE, date |-> None]
    ELSE LET next_day_str == strftime_date(strptime(user_date) + 1)
             is_present == \E i \in 1..Len(date_folders) :
                               date_folders[i] = next_day_str
         IN  [raised |-> FALSE, state |-> is_present,
              date |-> IF is_present THEN next_day_str ELSE None]

\* ------------------------------------------------------------------------
\* Stage config builder
\* ------------------------------------------------------------------------

\* f"{project_root}/<track>/restart/<date>.restart"
RestartFile(root, track, date) == [root |-> root, track |-> track, date |-> date]

NoFile == RestartFile(None, "none", None)

NoPrmsEnv == [PRMS_START_TIME |-> None, PRMS_END_TIME |-> None,
              PRMS_INIT_VARS_FROM_FILE |-> 0, PRMS_VAR_INIT_FILE |-> NoFile,
              PRMS_SAVE_VARS_TO_FILE |-> 0, PRMS_VAR_SAVE_FILE |-> NoFile,
              PRMS_RUN_TYPE |-> 0]

Built(v, e) == [raised |-> FALSE, vars |-> v, env |-> e]
BuildRaised(e) == [raised |-> TRUE, vars |-> NoPrmsEnv, env |-> e]

\* utils.get_ncf2cbh_opvars for mode "op" and "median" (None + str raises)
get_ncf2cbh_opvars(env, mode) ==
    IF mode = "median"
          /\ (env["CFSV2_NCF_ENSEMBLE_MED_IDIR"] = None
                  \/ env["FRCST_START_DATE"] = None)
    THEN BuildRaised(env)
    ELSE Built(NoPrmsEnv, env)

\* utils.get_out2ncf_vars (None + str raises in modes "op" and "ensemble")
get_out2ncf_vars(env, mode) ==
    IF mode \in {"op", "ensemble"} /\ env["OP_DIR"] = None
    THEN BuildRaised(env)
    ELSE Built(NoPrmsEnv, env)

get_forecast_median_prms_run_env_saving(env, restart_date) ==
    Built([PRMS_START_TIME |-> env["FRCST_START_TIME"],
           PRMS_END_TIME |-> env["FRCST_END_TIME"],
           PRMS_INIT_VARS_FROM_FILE |-> 1,
           PRMS_VAR_INIT_FILE |->
               RestartFile(env["PROJECT_ROOT"], "forecast", restart_date),
           PRMS_SAVE_VARS_TO_FILE |-> 1,
           PRMS_VAR_SAVE_FILE |->
               RestartFile(env["PROJECT_ROOT"], "forecast", env["FRCST_END_DATE"]),
           PRMS_RUN_TYPE |-> 1], env)

\* utils.get_forecast_median_prms_run_env
get_forecast_median_prms_run_env(env, restart_date) ==
    Built([PRMS_START_TIME |-> env["FRCST_START_TIME"],
           PRMS_END_TIME |-> env["FRCST_END_TIME"],
           PRMS_INIT_VARS_FROM_FILE |-> 1,
           PRMS_VAR_INIT_FILE |->
               RestartFile(env["PROJECT_ROOT"], "forecast", restart_date),
           PRMS_SAVE_VARS_TO_FILE |-> 0,
           PRMS_VAR_SAVE_FILE |-> NoFile,
           PRMS_RUN_TYPE |-> 1], env)

get_prms_run_env_daily(env, restart_date) ==
    IF ~IsDateStr(env["START_DATE"]) THEN BuildRaised(env)
    ELSE LET start_time == strftime_time(strptime(env["START_DATE"]))
             e1 == [env EXCEPT !["START_TIME"] = start_time]
         IN  IF ~IsDateStr(env["END_DATE"]) THEN BuildRaised(e1)
             ELSE Built([PRMS_START_TIME |-> start_time,
                         PRMS_END_TIME |-> strftime_time(strptime(env["END_DATE"])),
                         PRMS_INIT_VARS_FROM_FILE |-> 1,
                         PRMS_VAR_INIT_FILE |->
                             RestartFile(env["PROJECT_ROOT"], "daily", restart_date),
                         PRMS_SAVE_VARS_TO_FILE |-> 1,
                         PRMS_VAR_SAVE_FILE |->
                             RestartFile(env["PROJECT_ROOT"], "daily",
                                         env["END_DATE"]),
                         PRMS_RUN_TYPE |-> 0], e1)

\* utils.get_prms_run_env (sets env_vars["START_TIME"])
get_prms_run_env(env, restart_date) ==
    IF ~IsDateStr(env["START_DATE"]) THEN BuildRaised(env)
    ELSE LET start_time == strftime_time(strptime(env["START_DATE"]))
             e1 == [env EXCEPT !["START_TIME"] = start_time]
         IN  IF ~IsDateStr(env["END_DATE"]) THEN BuildRaised(e1)
             ELSE Built([PRMS_START_TIME |-> start_time,
                         PRMS_END_TIME |-> strftime_time(strptime(env["END_DATE"])),
                         PRMS_INIT_VARS_FROM_FILE |-> 1,
                         PRMS_VAR_INIT_FILE |->
                             RestartFile(env["PROJECT_ROOT"], "daily", restart_date),
                         PRMS_SAVE_VARS_TO_FILE |-> 1,
                         PRMS_VAR_SAVE_FILE |->
                             RestartFile(env["PROJECT_ROOT"], "forecast",
                                         env["END_DATE"]),
                         PRMS_RUN_TYPE |-> 0], e1)

get_prms_restart_env_end_time(env) ==
    IF ~IsDateStr(env["START_DATE"]) THEN BuildRaised(env)
    ELSE LET e1 == [env EXCEPT !["START_TIME"] =
                        strftime_time(strptime(env["START_DATE"]))]
         IN  Built([PRMS_START_TIME |-> e1["START_TIME"],
                    PRMS_END_TIME |-> strftime_time(strptime(e1["END_DATE"])),
                    PRMS_INIT_VARS_FROM_FILE |-> 1,
                    PRMS_VAR_INIT_FILE |->
                        RestartFile(e1["PROJECT_ROOT"], "daily",
                                    e1["NEW_RESTART_DATE"]),
                    PRMS_SAVE_VARS_TO_FILE |-> 1,
                    PRMS_VAR_SAVE_FILE |->
                        RestartFile(e1["PROJECT_ROOT"], "daily",
                                    e1["SAVE_RESTART_DATE"]),
                    PRMS_RUN_TYPE |-> 0], e1)

\* utils.get_prms_restart_env (sets env_vars["START_TIME"])
get_prms_restart_env(env) ==
    IF ~IsDateStr(env["START_DATE"]) THEN BuildRaised(env)
    ELSE LET e1 == [env EXCEPT !["START_TIME"] =
                        strftime_time(strptime(env["START_DATE"]))]
         IN  Built([PRMS_START_TIME |-> e1["START_TIME"],
                    PRMS_END_TIME |-> e1["SAVE_RESTART_TIME"],
                    PRMS_INIT_VARS_FROM_FILE |-> 1,
                    PRMS_VAR_INIT_FILE |->
                        RestartFile(e1["PROJECT_ROOT"], "daily",
                                    e1["NEW_RESTART_DATE"]),
                    PRMS_SAVE_VARS_TO_FILE |-> 1,
                    PRMS_VAR_SAVE_FILE |->
                        RestartFile(e1["PROJECT_ROOT"], "daily",
                                    e1["SAVE_RESTART_DATE"]),
                    PRMS_RUN_TYPE |-> 0], e1)

\* ------------------------------------------------------------------------
\* The ncf2cbh entry point (ncf2cbh_gfv11_embedded.py)
\* ------------------------------------------------------------------------

\* the climate variables of the NetCDF file, one CBH file each
CbhVars == <<"prcp", "tmax", "tmin">>

\* wdir + prefix + "_ensemble_<n>.nc", wdir + prefix + "_median.nc",
\* wdir + prefix + ".nc"
NcFile(mode, ensemble) ==
    IF mode = "ensemble" THEN <<"ensemble", ensemble>> ELSE <<mode, 0>>

\* how a call ends: it returns, raises an Exception, or raises SystemExit(code)
Ended(how, code, cbh) == [ends |-> how, code |-> code, cbh |-> cbh]

\* where the conversion fails, if it does
NoFault == [at |-> "none", var |-> 0]

\* run(dir, nc_fn, nhmid_dir): read the NetCDF file, read the nhm_id mapping,
\* write one CBH file per variable; cbh is the list of files written to the end
ncf2cbh_run(fault) ==
    IF fault.at \in {"read", "nhm_id"} THEN Ended("exception", 0, << >>)
    ELSE IF fault.at = "write"
    THEN Ended("exception", 0, SubSeq(CbhVars, 1, fault.var - 1))
    ELSE Ended("returned", 0, CbhVars)

\* ncf2cbh(wdir, prefix, nhmid_dir, mode, ensemble): with a mode that is none
\* of the three nc_fn is never bound and os.path.exists(nc_fn) raises
\* UnboundLocalError
ncf2cbh(mode, ensemble, present, fault) ==
    IF mode \notin {"ensemble", "median", "op"}
    THEN Ended("exception", 0, << >>)
    ELSE IF NcFile(mode, ensemble) \notin present
    THEN Ended("sys_exit", 1, << >>)
    ELSE ncf2cbh_run(fault)

\* sys.exit(main()): main prints an Exception and returns None, SystemExit
\* is no Exception and goes through
ncf2cbh_main(mode, ensemble, present, fault) ==
    LET r == ncf2cbh(mode, ensemble, present, fault)
    IN  [exit_code |-> IF r.ends = "sys_exit" THEN r.code ELSE 0,
         printed_error |-> r.ends = "exception",
         cbh |-> r.cbh]

\* ------------------------------------------------------------------------
\* Bounds and input domains
\* ------------------------------------------------------------------------

\* invocations of the command line modelled one after another
MaxRuns == 2

\* largest num_days offered to run_operational --test
MaxNumDays == 4

\* "yesterday" in America/Denver while the modelled invocations run
Yesterday == <<2024, 3, 1>>

Day(k) == adjust_date_str(Yesterday, k)

\* the shared volume before the first invocation: the markers of the two
\* restart stores and the dated folders under CFSV2_NCF_IDIR/ensemble_median
Volume(daily, forecast, median) ==
    [store |-> [daily |-> daily, forecast |-> forecast], folders |-> median]

InitialVolumes ==
    {Volume({}, {}, << >>),
     Volume({Day(-60)}, {Day(-1)}, <<Day(0)>>),
     Volume({Day(-61), Day(-60)}, {Day(-1)}, <<Day(-1), Day(1)>>),
     Volume({Day(-60)}, {}, <<Day(0)>>),
     Volume({Day(-60)}, {Day(-61)}, <<Day(-60)>>)}

\* checkpoints handed to the date functions called directly: the days from
\* each of these dates on, MaxSpan days far
BaseDates == {<<2024, 1, 10>>, <<2023, 12, 30>>, <<2024, 2, 27>>, <<2023, 2, 27>>}

MaxSpan == 2

Checkpoints == {adjust_date_str(b, i) : b \in BaseDates, i \in 0..MaxSpan}

\* the agreed feed date is up to MaxAhead days after the checkpoint
MaxAhead == 3

\* "yesterday" for the date functions called directly
Yesterdays == {Yesterday, <<2023, 12, 31>>}

\* FRCST_END_DATE as the env file may preset it
FrcstEndPresets == {None, EmptyStr, <<2024, 4, 10>>, Malformed}

\* num_days values offered to run_operational in the workflows
NumDaysChoices == {1, MaxNumDays}

\* what a feed may answer
FeedResponses == {Day(0), Day(-1), None, Malformed}

\* the answers of the six feeds in one invocation of the workflows: all the
\* same, or the first or the last feed differing from the other five
FeedVectors ==
    {[i \in 1..NumFeeds |-> IF i = at THEN other ELSE base] :
        base \in FeedResponses, other \in FeedResponses, at \in {1, NumFeeds}}

\* exit codes a stage container may end with
ExitCodes == {0, 1}

\* an env file: the configuration keys but the missing ones, and maybe a
\* preset FRCST_END_DATE
EnvFile(missing, frcst_end_date) ==
    [k \in EnvKeys |->
        IF k \in ConfigKeys THEN (IF k \in missing THEN None ELSE PathVal)
        ELSE IF k = "FRCST_END_DATE" THEN frcst_end_date
        ELSE None]

\* env files passed to run_operational and update_operational_restart
OpEnvFiles == {EnvFile({}, None), EnvFile({}, Day(40)), EnvFile({"OP_DIR"}, None),
               EnvFile({"PROJECT_ROOT"}, None)}

\* env files passed to run_sub_seasonal
FcEnvFiles == {EnvFile({}, None), EnvFile({"CFSV2_NCF_ENSEMBLE_MED_IDIR"}, None),
               EnvFile({"CFSV2_NCF_IDIR"}, None), EnvFile({"PROJECT_ROOT"}, None)}

EmptyEnv == EnvFile(ConfigKeys, None)

\* ------------------------------------------------------------------------
\* State
\* ------------------------------------------------------------------------

VARIABLES
    pc,            \* where the running invocation is ("idle": none is running)
    cmd,           \* the subcommand invoked and its arguments
    client,        \* DockerManager.client is not None
    env,           \* env_vars
    restart_date,  \* what get_latest_restart_date returned
    gm,            \* (status_list, date_list) of gridmet_updated
    feeds,         \* the responses the feeds gave in this invocation
    next_day,      \* (state, forecast_run_date) of is_next_day_present
    stage,         \* index of the next stage of the workflow
    store,         \* the restart stores: track -> dates of its markers
    folders,       \* dated folders under CFSV2_NCF_IDIR/ensemble_median
    containers,    \* named containers: name -> "absent", "running", "exited"
    lookup,        \* the detached lookup container: "none", "started", "done"
    trace,         \* stage containers run by this invocation, in order
    outcome,       \* how the last invocation ended ("running" while it runs)
    exit_code,     \* the process exit status (-1 while it runs)
    runs,          \* invocations started so far
    call,          \* the last direct call of a utils function and its inputs
    ret            \* what that call returned

vars == <<pc, cmd, client, env, restart_date, gm, feeds, next_day, stage, store,
          folders, containers, lookup, trace, outcome, exit_code, runs, call, ret>>

runVars == <<pc, cmd, client, env, restart_date, gm, feeds, next_day, stage,
             store, folders, containers, lookup, trace, outcome,
             exit_code, runs>>

ContainerNames == {"gridmetetl", "ncf2cbh", "prms", "out2ncf"}

NoContainers == [n \in ContainerNames |-> "absent"]

\* what an invocation that was killed during its prms stage left behind (on
\* the initial volume that holds two daily markers)
LeftByKilledRun ==
    [n \in ContainerNames |->
        IF n = "prms" THEN "running"
        ELSE IF n = "out2ncf" THEN "absent"
        ELSE "exited"]

NoCmd == [name |-> "none", test |-> FALSE, num_days |-> 0, method |-> "none"]
NoGm == [raised |-> FALSE, status_list |-> << >>, date_list |-> << >>]
NoNextDay == [raised |-> FALSE, state |-> FALSE, date |-> None]
NoCall == [fn |-> "none", restart_date |-> None, end_date |-> None,
           num_days |-> 0, yesterday |-> None, env |-> EmptyEnv, feeds |-> << >>,
           date_folders |-> << >>, mode |-> "none", entries |-> << >>,
           printed |-> FALSE, ensemble |-> 0, present |-> {},
           fault |-> [at |-> "none", var |-> 0], tag |-> "none",
           no_cache |-> FALSE, client_ok |-> TRUE, github_token |-> None,
           result |-> "none"]

InitRun ==
    /\ pc = "idle"
    /\ cmd = NoCmd
    /\ client = TRUE
    /\ env = EmptyEnv
    /\ restart_date = None
    /\ gm = NoGm
    /\ feeds = << >>
    /\ next_day = NoNextDay
    /\ stage = 1
    /\ \E v \in InitialVolumes : store = v.store /\ folders = v.folders
    /\ containers = IF store["daily"] = {Day(-61), Day(-60)}
                    THEN LeftByKilledRun
                    ELSE NoContainers
    /\ lookup = "none"
    /\ trace = << >>
    /\ outcome = "none"
    /\ exit_code = 0
    /\ runs = 0

Init == InitRun /\ call = NoCall /\ ret = Returned(EmptyEnv)

\* ------------------------------------------------------------------------
\* Process exit
\* ------------------------------------------------------------------------

\* the subcommand returns, or an exception reaches main(), which prints it:
\* the interpreter exits with status 0
ReturnsToShell(why) ==
    /\ pc' = "exited"
    /\ outcome' = why
    /\ exit_code' = 0

SysExit1Returns(why) ==
    /\ pc' = "exited"
    /\ outcome' = why
    /\ exit_code' = 0

\* sys.exit(1): SystemExit is no Exception, so no handler on the way catches it
SysExit1(why) ==
    /\ pc' = "exited"
    /\ outcome' = why
    /\ exit_code' = 1

\* ------------------------------------------------------------------------
\* Subcommands
\* ------------------------------------------------------------------------

Begin(c, client_ok, file) ==
    /\ pc = "idle"
    /\ runs < MaxRuns
    /\ runs' = runs + 1
    /\ cmd' = c
    /\ client' = client_ok
    /\ env' = file
    /\ UNCHANGED <<restart_date, gm, feeds, next_day, stage, trace, store, folders,
                   containers, lookup, call, ret>>

Running(where) ==
    /\ pc' = where
    /\ outcome' = "running"
    /\ exit_code' = -1

\* run_operational: DockerManager(), load_env_file, the client check
RunOperational ==
    \E test \in BOOLEAN, n \in NumDaysChoices, client_ok \in BOOLEAN,
       file \in OpEnvFiles, loaded \in BOOLEAN :
        /\ ~test => n = MaxNumDays   \* num_days is read in the test branch only
        /\ Begin([name |-> "run_operational", test |-> test, num_days |-> n,
                  method |-> "none"],
                 client_ok, IF loaded THEN file ELSE EmptyEnv)
        /\ IF ~loaded THEN ReturnsToShell("env_file_error")
           ELSE IF ~client_ok THEN ReturnsToShell("client_unavailable")
           ELSE Running("lookup_run")

\* update_operational_restart: the client check only prints
UpdateOperationalRestart ==
    \E client_ok \in BOOLEAN, file \in OpEnvFiles, loaded \in BOOLEAN :
        /\ Begin([name |-> "update_operational_restart", test |-> FALSE,
                  num_days |-> 0, method |-> "none"],
                 client_ok, IF loaded THEN file ELSE EmptyEnv)
        /\ IF ~loaded THEN ReturnsToShell("env_file_error")
           ELSE Running("lookup_run")

ValidMethodAny(method) == TRUE

\* forecast_run: method in ["median", "ensemble"], else ValueError
ValidMethod(method) == method \in {"median", "ensemble"}

\* run_sub_seasonal up to forecast_run's paths: the client check only prints;
\* an invalid method and Path(None) raise
RunSubSeasonal ==
    \E method \in {"median", "ensemble", "seasonal"}, client_ok \in BOOLEAN,
       file \in FcEnvFiles, loaded \in BOOLEAN :
        /\ Begin([name |-> "run_sub_seasonal", test |-> FALSE,
                  num_days |-> 0, method |-> method],
                 client_ok, IF loaded THEN file ELSE EmptyEnv)
        /\ IF ~loaded THEN ReturnsToShell("env_file_error")
           ELSE IF ~ValidMethod(method)
           THEN ReturnsToShell("invalid_method")
           ELSE IF file["CFSV2_NCF_IDIR"] = None
           THEN ReturnsToShell("uncaught_exception")
           ELSE Running("lookup_run")

\* ------------------------------------------------------------------------
\* Checkpoint discovery (get_latest_restart_date)
\* ------------------------------------------------------------------------

\* what "ls -1 *.restart" leaves on the terminal when nothing matches
LsError == << -3 >>

\* string order of two "YYYY-MM-DD" names
StrLess(a, b) ==
    \/ a[1] < b[1]
    \/ a[1] = b[1] /\ a[2] < b[2]
    \/ a[1] = b[1] /\ a[2] = b[2] /\ a[3] < b[3]

Oldest(S) == CHOOSE d \in S : \A o \in S : o = d \/ StrLess(d, o)

\* ls -1 *.restart | sort | tail -1 | cut -f1 -d .
Newest(S) == CHOOSE d \in S : \A o \in S : o = d \/ StrLess(o, d)

TrackDaily == "daily"

\* the restart directory the lookup lists: mode "forecast" in forecast_run,
\* mode "op" elsewhere
Track == IF cmd.name = "run_sub_seasonal" THEN "forecast" ELSE "daily"

AfterLookupToStages ==
    IF cmd.name = "run_operational" THEN "stage_start"
    ELSE IF cmd.name = "update_operational_restart" THEN "restart_dates"
    ELSE "fc_dates"

AfterLookupAlwaysGated ==
    IF cmd.name = "run_operational" THEN "op_gridmet"
    ELSE IF cmd.name = "update_operational_restart" THEN "restart_dates"
    ELSE "fc_dates"

\* where each workflow goes on once get_latest_restart_date has returned
AfterLookup ==
    IF cmd.name = "run_operational"
    THEN (IF cmd.test THEN "op_dates_testing" ELSE "op_gridmet")
    ELSE IF cmd.name = "update_operational_restart" THEN "restart_dates"
    ELSE "fc_dates"

\* client.containers.run(..., detach=True): every exception is logged and the
\* function returns None
LookupRun ==
    /\ pc = "lookup_run"
    /\ \E started \in BOOLEAN :
        IF client /\ env["PROJECT_ROOT"] # None /\ started
        THEN /\ lookup' = "started"
             /\ pc' = "lookup_logs"
             /\ UNCHANGED restart_date
        ELSE /\ restart_date' = None
             /\ pc' = AfterLookup
             /\ UNCHANGED lookup
    /\ UNCHANGED <<cmd, client, env, gm, feeds, next_day, stage, store, folders, containers, trace, outcome, exit_code, runs, call, ret>>

\* the lookup container's command prints its result and ends
LookupProduce ==
    /\ lookup = "started"
    /\ lookup' = "done"
    /\ UNCHANGED <<pc, cmd, client, env, restart_date, gm, feeds, next_day, stage,
                   store, folders, containers, trace, outcome, exit_code, runs,
                   call, ret>>

get_latest_restart_date_default(output) ==
    [raised |-> FALSE, value |-> IF output = EmptyStr THEN Day(-60) ELSE output]

\* get_latest_restart_date from the stripped logs on: an empty result raises
\* FileNotFoundError inside the try block, whose "except Exception" logs it,
\* and the function returns None; nothing is raised to the caller
get_latest_restart_date(output) ==
    [raised |-> FALSE, value |-> IF output = EmptyStr THEN None ELSE output]

\* container.logs(), container.remove() and the rest of
\* get_latest_restart_date; an exception reaching the caller is logged there
\* (operational_run, update_operational_restart) or is left to main()
\* (forecast_run)
LookupLogs ==
    /\ pc = "lookup_logs"
    /\ \E output \in (IF lookup # "done" THEN {EmptyStr}
                      ELSE IF store[Track] = {} THEN {EmptyStr, LsError}
                      ELSE {Newest(store[Track])}) :
           LET r == get_latest_restart_date(output)
           IN  /\ restart_date' = r.value
               /\ IF r.raised
                  THEN ReturnsToShell(IF cmd.name = "run_sub_seasonal"
                                      THEN "uncaught_exception"
                                      ELSE "lookup_error")
                  ELSE pc' = AfterLookup /\ UNCHANGED <<outcome, exit_code>>
    /\ lookup' = "none"
    /\ UNCHANGED <<cmd, client, env, gm, feeds, next_day, stage, store, folders,
                   containers, trace, runs, call, ret>>

\* ------------------------------------------------------------------------
\* operational_run and update_operational_restart up to the containers
\* ------------------------------------------------------------------------

\* operational_run, test branch
OpDatesTesting ==
    /\ pc = "op_dates_testing"
    /\ LET u == env_update_dates_for_testing(restart_date, env, cmd.num_days,
                                             Yesterday)
       IN  /\ env' = u.env
           /\ IF u.raised
              THEN ReturnsToShell("dates_error")
              ELSE pc' = "stage_start" /\ UNCHANGED <<outcome, exit_code>>
    /\ UNCHANGED <<cmd, client, restart_date, gm, feeds, next_day, stage, store,
                   folders, containers, lookup, trace, runs, call, ret>>

\* operational_run, operational branch: utils.gridmet_updated()
OpGridmetUpdated ==
    /\ pc = "op_gridmet"
    /\ \E resps \in FeedVectors :
        /\ feeds' = resps
        /\ gm' = gridmet_updated(resps, Yesterday)
        /\ IF gm'.raised
           THEN ReturnsToShell("dates_error")
           ELSE pc' = "op_consistency" /\ UNCHANGED <<outcome, exit_code>>
    /\ UNCHANGED <<cmd, client, env, restart_date, next_day, stage, store, folders, containers, lookup, trace, runs, call, ret>>

\* operational_run, operational branch: check_consistency, the gate and
\* env_update_dates
OpCheckConsistency ==
    /\ pc = "op_consistency"
    /\ LET r == check_consistency(gm.status_list, gm.date_list)
           u == env_update_dates(restart_date, r.date, env)
       IN  IF r.arity # 2
           THEN ReturnsToShell("dates_error") /\ UNCHANGED env
           ELSE IF r.status = FALSE
           THEN ReturnsToShell("not_updated") /\ UNCHANGED env
           ELSE /\ env' = u.env
                /\ IF u.raised
                   THEN ReturnsToShell("dates_error")
                   ELSE pc' = "stage_start" /\ UNCHANGED <<outcome, exit_code>>
    /\ UNCHANGED <<cmd, client, restart_date, gm, feeds, next_day, stage, store,
                   folders, containers, lookup, trace, runs, call, ret>>

\* update_operational_restart: env_update_dates_for_restart_update
RestartDates ==
    /\ pc = "restart_dates"
    /\ LET u == env_update_dates_for_restart_update(restart_date, env, Yesterday)
       IN  /\ env' = u.env
           /\ IF u.raised
              THEN ReturnsToShell("dates_error")
              ELSE pc' = "stage_start" /\ UNCHANGED <<outcome, exit_code>>
    /\ UNCHANGED <<cmd, client, restart_date, gm, feeds, next_day, stage, store,
                   folders, containers, lookup, trace, runs, call, ret>>

\* ------------------------------------------------------------------------
\* forecast_run up to the containers
\* ------------------------------------------------------------------------

\* env_update_forecast_dates: its exception is not handled in forecast_run
FcDates ==
    /\ pc = "fc_dates"
    /\ LET u == env_update_forecast_dates(restart_date, env)
       IN  /\ env' = u.env
           /\ IF u.raised
              THEN ReturnsToShell("uncaught_exception")
              ELSE pc' = "fc_probe" /\ UNCHANGED <<outcome, exit_code>>
    /\ UNCHANGED <<cmd, client, restart_date, gm, feeds, next_day, stage, store,
                   folders, containers, lookup, trace, runs, call, ret>>

\* an entry of the directory list_date_folders searches
DirEntry(name, is_dir) == [name |-> name, is_dir |-> is_dir]

\* grep -E "/[0-9]{4}-[0-9]{2}-[0-9]{2}$": four, two and two digits
MatchesDatePattern(name) ==
    /\ Len(name) = 3
    /\ name[1] \in 0..9999
    /\ name[2] \in 0..99
    /\ name[3] \in 0..99

\* find <path> -maxdepth 1 -type d | grep -E ...
IsListed(e) == e.is_dir /\ MatchesDatePattern(e.name)

\* DockerManager.list_date_folders: the last path component of every line of
\* the logs read from the detached container (printed: the pipeline had
\* printed its lines by then); "".split("\n") is [""]
list_date_folders(entries, printed) ==
    LET lines == IF printed THEN SelectSeq(entries, IsListed) ELSE << >>
    IN  IF lines = << >> THEN <<EmptyStr>>
        ELSE [i \in 1..Len(lines) |-> lines[i].name]

\* list_date_folders(median_path) in forecast_run: the folders of the volume
\* are dated directories
ListDateFolders(printed) ==
    list_date_folders([i \in 1..Len(folders) |-> DirEntry(folders[i], TRUE)],
                      printed)

\* what CFSV2_NCF_IDIR/ensembles may hold when forecast_run lists it
EnsembleDirs ==
    {<< >>,
     <<DirEntry(Day(0), TRUE)>>,
     <<DirEntry(Day(-1), TRUE), DirEntry(Day(1), FALSE)>>}

FcProbeEveryMethod ==
    /\ pc = "fc_probe"
    /\ \E printed \in BOOLEAN, ensembles \in EnsembleDirs :
        /\ next_day' = is_next_day_present(
                           IF cmd.method = "median"
                           THEN ListDateFolders(printed)
                           ELSE list_date_folders(ensembles, printed),
                           restart_date)
        /\ IF next_day'.raised THEN ReturnsToShell("uncaught_exception")
           ELSE IF cmd.method \in {"median", "ensemble"}
           THEN pc' = "stage_start" /\ UNCHANGED <<outcome, exit_code>>
           ELSE ReturnsToShell("completed")
    /\ UNCHANGED <<cmd, client, env, restart_date, gm, feeds, stage, store, folders, containers, lookup, trace, runs, call, ret>>

\* forecast_run: list_date_folders, is_next_day_present, the method branch
FcProbe ==
    /\ pc = "fc_probe"
    /\ \E printed \in BOOLEAN, ensembles \in EnsembleDirs :
        /\ next_day' = is_next_day_present(
                           IF cmd.method = "median"
                           THEN ListDateFolders(printed)
                           ELSE list_date_folders(ensembles, printed),
                           restart_date)
        /\ IF next_day'.raised THEN ReturnsToShell("uncaught_exception")
           ELSE IF cmd.method = "median"
           THEN pc' = "stage_start" /\ UNCHANGED <<outcome, exit_code>>
           ELSE ReturnsToShell("completed")
    /\ UNCHANGED <<cmd, client, env, restart_date, gm, feeds, stage, store, folders, containers, lookup, trace, runs, call, ret>>

\* ------------------------------------------------------------------------
\* Stage execution
\* ------------------------------------------------------------------------

OpPipelineNoCatchUp == <<"gridmetetl", "ncf2cbh", "prms_run", "out2ncf">>

\* op_containers: the stages in source order
OpPipeline == <<"gridmetetl", "ncf2cbh", "prms_run", "out2ncf", "prms_restart">>

RestartPipelineRepeated ==
    <<"gridmetetl", "ncf2cbh", "ncf2cbh", "prms_restart", "out2ncf">>

RestartPipelineSwapped == <<"gridmetetl", "ncf2cbh", "out2ncf", "prms_restart">>

\* update_restart_containers: the stages in source order
RestartPipeline == <<"gridmetetl", "ncf2cbh", "prms_restart", "out2ncf">>

MedianPipelineNoConvert == <<"prms_forecast", "out2ncf_median">>

\* forecast_run, method "median": the stages in source order
MedianPipeline == <<"ncf2cbh_median", "prms_forecast", "out2ncf_median">>

Pipeline ==
    IF cmd.name = "run_operational" THEN OpPipeline
    ELSE IF cmd.name = "update_operational_restart" THEN RestartPipeline
    ELSE MedianPipeline

\* the container_name each stage is run under
ContainerName(kind) ==
    IF kind = "gridmetetl" THEN "gridmetetl"
    ELSE IF kind \in {"ncf2cbh", "ncf2cbh_median"} THEN "ncf2cbh"
    ELSE IF kind \in {"prms_run", "prms_restart", "prms_forecast"} THEN "prms"
    ELSE "out2ncf"

\* the environment bundle built right before each stage is run
StageEnv(kind) ==
    IF kind = "gridmetetl" THEN Built(NoPrmsEnv, env)
    ELSE IF kind = "ncf2cbh" THEN get_ncf2cbh_opvars(env, "op")
    ELSE IF kind = "ncf2cbh_median" THEN get_ncf2cbh_opvars(env, "median")
    ELSE IF kind = "prms_run" THEN get_prms_run_env(env, restart_date)
    ELSE IF kind = "prms_restart" THEN get_prms_restart_env(env)
    ELSE IF kind = "prms_forecast"
    THEN get_forecast_median_prms_run_env(env, restart_date)
    ELSE IF kind = "out2ncf" THEN get_out2ncf_vars(env, "op")
    ELSE get_out2ncf_vars(env, "median")

Last(q) == q[Len(q)]

\* run_container_with_check before run_container: a running container of the
\* name is stopped
StopIfRunning(cs, name) ==
    IF cs[name] = "running" THEN [cs EXCEPT ![name] = "exited"] ELSE cs

\* container_exists_and_running: (exists, running)
container_exists_and_running(cs, name) ==
    [exists |-> cs[name] # "absent", running |-> cs[name] = "running"]

manage_container_stop_only(cs, name, action) ==
    IF cs[name] = "absent" THEN cs
    ELSE IF action = "restart" /\ cs[name] = "exited"
    THEN [cs EXCEPT ![name] = "running"]
    ELSE IF action = "stop_remove" THEN [cs EXCEPT ![name] = "exited"]
    ELSE cs

\* manage_container: "restart" starts an exited container, "stop_remove"
\* stops and removes the container; a name that is not found is only logged
manage_container(cs, name, action) ==
    IF cs[name] = "absent" THEN cs
    ELSE IF action = "restart" /\ cs[name] = "exited"
    THEN [cs EXCEPT ![name] = "running"]
    ELSE IF action = "stop_remove" THEN [cs EXCEPT ![name] = "absent"]
    ELSE cs

\* the named containers at the moment run_container issues
\* client.containers.run(name=...)
BeforeRun(cs, name) ==
    LET c0 == IF cmd.name = "run_sub_seasonal" THEN cs ELSE StopIfRunning(cs, name)
    IN  IF container_exists_and_running(c0, name).exists
        THEN manage_container(c0, name, "stop_remove")
        ELSE c0

\* the builder of the next stage, then run_container_with_check / run_container
\* up to client.containers.run(..., detach=True): a container of the name is
\* stopped and removed and the new one is started; the runtime refuses a name
\* that is in use, and every exception of the runtime makes run_container
\* return False
StageStart ==
    /\ pc = "stage_start"
    /\ LET kind == Pipeline[stage]
           name == ContainerName(kind)
           b    == StageEnv(kind)
           c1   == BeforeRun(containers, name)
       IN  /\ env' = b.env
           /\ IF b.raised
              THEN /\ IF cmd.name = "run_sub_seasonal"
                      THEN ReturnsToShell("uncaught_exception")
                      ELSE SysExit1("builder_error")
                   /\ UNCHANGED <<containers, trace>>
              ELSE IF c1[name] # "absent"
              THEN /\ containers' = c1
                   /\ SysExit1("name_conflict")
                   /\ UNCHANGED trace
              ELSE \E started \in (IF client THEN BOOLEAN ELSE {FALSE}) :
                     IF started
                     THEN /\ containers' = [c1 EXCEPT ![name] = "running"]
                          /\ trace' = Append(trace, [kind |-> kind, name |-> name,
                                                     prms |-> b.vars, exit |-> -1])
                          /\ pc' = "stage_wait"
                          /\ UNCHANGED <<outcome, exit_code>>
                     ELSE /\ containers' = c1
                          /\ SysExit1("stage_failed")
                          /\ UNCHANGED trace
    /\ UNCHANGED <<cmd, client, restart_date, gm, feeds, next_day, stage, store,
                   folders, lookup, runs, call, ret>>

SavesWhateverExit(e, code) ==
    /\ e.prms.PRMS_SAVE_VARS_TO_FILE = 1
    /\ e.prms.PRMS_VAR_SAVE_FILE.root # None
    /\ IsDateStr(e.prms.PRMS_VAR_SAVE_FILE.date)

\* the marker a simulation writes when it ends well (save_vars_to_file = 1)
Saves(e, code) ==
    /\ code = 0
    /\ e.prms.PRMS_SAVE_VARS_TO_FILE = 1
    /\ e.prms.PRMS_VAR_SAVE_FILE.root # None
    /\ IsDateStr(e.prms.PRMS_VAR_SAVE_FILE.date)

\* a simulation needs the state it is initialised from (init_vars_from_file = 1)
CanSucceed(e) ==
    e.prms.PRMS_INIT_VARS_FROM_FILE = 1 =>
        /\ e.prms.PRMS_VAR_INIT_FILE.track \in DOMAIN store
        /\ e.prms.PRMS_VAR_INIT_FILE.date \in store[e.prms.PRMS_VAR_INIT_FILE.track]

\* the stage container runs to its end: its exit code and what it leaves on
\* the shared volume
ContainerExit ==
    /\ pc = "stage_wait"
    /\ containers[Last(trace).name] = "running"
    /\ LET e == Last(trace)
       IN  \E code \in ExitCodes :
             /\ code = 0 => CanSucceed(e)
             /\ containers' = [containers EXCEPT ![e.name] = "exited"]
             /\ trace' = [trace EXCEPT ![Len(trace)].exit = code]
             /\ store' = IF Saves(e, code)
                         THEN [store EXCEPT ![e.prms.PRMS_VAR_SAVE_FILE.track] =
                                   @ \cup {e.prms.PRMS_VAR_SAVE_FILE.date}]
                         ELSE store
    /\ UNCHANGED <<pc, cmd, client, env, restart_date, gm, feeds, next_day, stage,
                   folders, lookup, outcome, exit_code, runs, call, ret>>

LogStreamEndedAtOnce(c) == TRUE

\* for log in container.logs(stream=True): the loop ends when the container
\* has ended
LogStreamEnded(c) == c = "exited"

run_container_always_true(e) == TRUE

run_container_negative_only(e) == ~(containers[e.name] = "exited" /\ e.exit < 0)

\* run_container after the log stream ended: False iff the reloaded container
\* is exited with a non-zero exit code
run_container(e) == ~(containers[e.name] = "exited" /\ e.exit # 0)

\* the end of run_container and the caller's check of its result: sys.exit(1)
\* on False, else the next stage, or the workflow function returns
StageCheck ==
    /\ pc = "stage_wait"
    /\ LogStreamEnded(containers[Last(trace).name])
    /\ IF ~run_container(Last(trace))
       THEN SysExit1("stage_failed") /\ UNCHANGED stage
       ELSE IF stage < Len(Pipeline)
       THEN /\ stage' = stage + 1
            /\ pc' = "stage_start"
            /\ UNCHANGED <<outcome, exit_code>>
       ELSE ReturnsToShell("completed") /\ UNCHANGED stage
    /\ UNCHANGED <<cmd, client, env, restart_date, gm, feeds, next_day, store,
                   folders, containers, lookup, trace, runs, call, ret>>

\* the interpreter has exited: nothing of the invocation is left but the
\* shared volume and the containers
ProcessEnd ==
    /\ pc = "exited"
    /\ pc' = "idle"
    /\ cmd' = NoCmd
    /\ client' = TRUE
    /\ env' = EmptyEnv
    /\ restart_date' = None
    /\ gm' = NoGm
    /\ feeds' = << >>
    /\ next_day' = NoNextDay
    /\ stage' = 1
    /\ trace' = << >>
    /\ outcome' = "none"
    /\ exit_code' = 0
    /\ UNCHANGED <<store, folders, containers, lookup, runs, call, ret>>

\* ------------------------------------------------------------------------
\* Specification of the workflows
\* ------------------------------------------------------------------------

Next ==
    \/ RunOperational
    \/ UpdateOperationalRestart
    \/ RunSubSeasonal
    \/ LookupRun
    \/ LookupProduce
    \/ LookupLogs
    \/ OpDatesTesting
    \/ OpGridmetUpdated
    \/ OpCheckConsistency
    \/ RestartDates
    \/ FcDates
    \/ FcProbe
    \/ StageStart
    \/ ContainerExit
    \/ StageCheck
    \/ ProcessEnd

Spec == Init /\ [][Next]_vars

\* ------------------------------------------------------------------------
\* Specifications of the utils functions called directly
\* ------------------------------------------------------------------------

InitCalls ==
    /\ pc = "idle"
    /\ cmd = NoCmd
    /\ client = TRUE
    /\ env = EmptyEnv
    /\ restart_date = None
    /\ gm = NoGm
    /\ feeds = << >>
    /\ next_day = NoNextDay
    /\ stage = 1
    /\ store = [daily |-> {}, forecast |-> {}]
    /\ folders = << >>
    /\ containers = [n \in ContainerNames |-> "absent"]
    /\ lookup = "none"
    /\ trace = << >>
    /\ outcome = "none"
    /\ exit_code = 0
    /\ runs = 0
    /\ call = NoCall
    /\ ret = Returned(EmptyEnv)

\* the dictionary a call is handed: a freshly loaded one
EnvsBefore == {EnvFile({}, p) : p \in FrcstEndPresets}

CallEnvUpdateDates ==
    \E d \in Checkpoints \cup {None}, k \in 1..MaxAhead, e \in EnvsBefore :
        LET end_date == IF d = None THEN Yesterday ELSE adjust_date_str(d, k)
        IN  /\ call.fn = "none"
            /\ call' = [NoCall EXCEPT !.fn = "env_update_dates",
                                      !.restart_date = d,
                                      !.end_date = end_date, !.env = e]
            /\ ret' = env_update_dates(d, end_date, e)
            /\ UNCHANGED runVars

CallEnvUpdateDatesForTesting ==
    \E d \in Checkpoints \cup {None}, n \in 1..MaxNumDays, y \in Yesterdays,
       e \in EnvsBefore :
        /\ call.fn = "none"
        /\ call' = [NoCall EXCEPT !.fn = "env_update_dates_for_testing",
                                  !.restart_date = d, !.num_days = n,
                                  !.yesterday = y, !.env = e]
        /\ ret' = env_update_dates_for_testing(d, e, n, y)
        /\ UNCHANGED runVars

CallEnvUpdateDatesForRestartUpdate ==
    \E d \in Checkpoints \cup {None}, y \in Yesterdays, e \in EnvsBefore :
        /\ call.fn = "none"
        /\ call' = [NoCall EXCEPT !.fn = "env_update_dates_for_restart_update",
                                  !.restart_date = d, !.yesterday = y,
                                  !.env = e]
        /\ ret' = env_update_dates_for_restart_update(d, e, y)
        /\ UNCHANGED runVars

NextWindow ==
    \/ CallEnvUpdateDates
    \/ CallEnvUpdateDatesForTesting
    \/ CallEnvUpdateDatesForRestartUpdate

SpecWindow == InitCalls /\ [][NextWindow]_vars

\* what operational_run makes of the six answers: the tuple check_consistency
\* returns for the lists of gridmet_updated (nothing when that raised)
GateOf(resps, yesterday) ==
    LET g == gridmet_updated(resps, yesterday)
        r == check_consistency(g.status_list, g.date_list)
    IN  [raised |-> g.raised \/ r.arity # 2,
         status |-> IF g.raised THEN FALSE ELSE r.status,
         date |-> IF g.raised THEN EmptyStr ELSE r.date]

CallFreshnessCheck ==
    \E resps \in [1..NumFeeds -> FeedResponses], y \in {Day(0), Day(1)} :
        /\ call.fn = "none"
        /\ call' = [NoCall EXCEPT !.fn = "gridmet_updated", !.yesterday = y,
                                  !.feeds = resps]
        /\ ret' = GateOf(resps, y)
        /\ UNCHANGED runVars

NextFeeds == CallFreshnessCheck

SpecFeeds == InitCalls /\ [][NextFeeds]_vars

\* ------------------------------------------------------------------------
\* Specification of the data presence prober called directly
\* ------------------------------------------------------------------------

\* reference dates handed to is_next_day_present
ProbeDates == Checkpoints \cup {Yesterday}

\* folder lists as list_date_folders returns them: nothing found (one empty
\* name), and lists holding the reference date, the day after it and the
\* fourth day after it
ProbeFolders(r) ==
    LET a == r
        b == adjust_date_str(r, 1)
        c == adjust_date_str(r, 4)
    IN  {<< >>, <<EmptyStr>>, <<a>>, <<b>>, <<c>>, <<a, b>>, <<c, b>>, <<a, c>>,
         <<a, c, b>>, <<b, b>>}

CallIsNextDayPresent ==
    \E r \in ProbeDates :
        \E A \in ProbeFolders(r) :
            /\ call.fn = "none"
            /\ call' = [NoCall EXCEPT !.fn = "is_next_day_present",
                                      !.restart_date = r, !.date_folders = A]
            /\ ret' = is_next_day_present(A, r)
            /\ UNCHANGED runVars

\* most entries of a directory handed to list_date_folders
MaxEntries == 2

\* what a directory may hold: dated directories, a directory whose name has
\* the digits of no calendar date, a directory of another name, a dated file
ProbeEntries ==
    {DirEntry(Day(0), TRUE), DirEntry(Day(1), TRUE),
     DirEntry(<<2024, 13, 45>>, TRUE), DirEntry(Malformed, TRUE),
     DirEntry(Day(2), FALSE)}

ProbeDirs == UNION {[1..n -> ProbeEntries] : n \in 0..MaxEntries}

CallListDateFolders ==
    \E entries \in ProbeDirs, printed \in BOOLEAN :
        /\ call.fn = "none"
        /\ call' = [NoCall EXCEPT !.fn = "list_date_folders",
                                  !.entries = entries, !.printed = printed]
        /\ ret' = [raised |-> FALSE,
                   value |-> list_date_folders(entries, printed)]
        /\ UNCHANGED runVars

NextProbe ==
    \/ CallIsNextDayPresent
    \/ CallListDateFolders

SpecProbe == InitCalls /\ [][NextProbe]_vars

\* ------------------------------------------------------------------------
\* Specification of the mode and method checks: get_latest_restart_date
\* called directly, and the forecast workflow
\* ------------------------------------------------------------------------

\* modes handed to get_latest_restart_date called directly
LookupModes == {"op", "forecast", "median", "ensemble"}

ValidModeAny(mode) == TRUE

\* get_latest_restart_date: mode in ["op", "forecast"], else ValueError
ValidMode(mode) == mode \in {"op", "forecast"}

\* working_dir of the lookup container
ModeTrack(mode) == IF mode = "op" THEN "daily" ELSE "forecast"

LookupReturned(v) == [raised |-> FALSE, error |-> "none", value |-> v]
LookupRaised(error) == [raised |-> TRUE, error |-> error, value |-> None]

\* get_latest_restart_date(env_vars, mode) up to client.containers.run
CallGetLatestRestartDate ==
    \E mode \in LookupModes, missing \in {{}, {"PROJECT_ROOT"}},
       started \in BOOLEAN :
        /\ pc = "idle"
        /\ call.fn = "none"
        /\ call' = [NoCall EXCEPT !.fn = "get_latest_restart_date",
                                  !.mode = mode, !.env = EnvFile(missing, None)]
        /\ IF ~ValidMode(mode)
           THEN /\ ret' = LookupRaised("ValueError")
                /\ UNCHANGED <<pc, lookup>>
           ELSE IF "PROJECT_ROOT" \notin missing /\ started
           THEN /\ lookup' = "started"
                /\ pc' = "direct_lookup"
                /\ UNCHANGED ret
           ELSE /\ ret' = LookupReturned(None)
                /\ UNCHANGED <<pc, lookup>>
        /\ UNCHANGED <<cmd, client, env, restart_date, gm, feeds, next_day, stage,
                       store, folders, containers, trace, outcome, exit_code,
                       runs>>

\* container.logs(), container.remove() and the return of the direct call
ReturnGetLatestRestartDate ==
    /\ pc = "direct_lookup"
    /\ \E output \in (IF lookup # "done" THEN {EmptyStr}
                      ELSE IF store[ModeTrack(call.mode)] = {}
                      THEN {EmptyStr, LsError}
                      ELSE {Newest(store[ModeTrack(call.mode)])}) :
           LET r == get_latest_restart_date(output)
           IN  ret' = IF r.raised THEN LookupRaised("FileNotFoundError")
                      ELSE LookupReturned(r.value)
    /\ lookup' = "none"
    /\ pc' = "idle"
    /\ UNCHANGED <<cmd, client, env, restart_date, gm, feeds, next_day, stage,
                   store, folders, containers, trace, outcome, exit_code, runs,
                   call>>

NextModes ==
    \/ CallGetLatestRestartDate
    \/ ReturnGetLatestRestartDate
    \/ RunSubSeasonal
    \/ LookupRun
    \/ LookupProduce
    \/ LookupLogs
    \/ FcDates
    \/ FcProbe
    \/ StageStart
    \/ ContainerExit
    \/ StageCheck
    \/ ProcessEnd

SpecModes == Init /\ [][NextModes]_vars

\* the calls forecast_run makes one after the other up to its method branch:
\* each returns or raises, none waits for a stage container
ForecastPrelude == LookupRun \/ LookupLogs \/ FcDates \/ FcProbe

\* the forecast workflow with the orchestrator's own calls going on
SpecModesFair == SpecModes /\ WF_vars(ForecastPrelude)

\* ------------------------------------------------------------------------
\* Specification of window resolution on a dictionary that is used again
\* ------------------------------------------------------------------------

ResolveModes == {"env_update_dates_for_testing", "env_update_dates",
                 "env_update_dates_for_restart_update",
                 "env_update_forecast_dates"}

\* the window keys each mode resolves
WindowKeys(fn) ==
    IF fn = "env_update_forecast_dates"
    THEN {"FRCST_START_DATE", "FRCST_END_DATE"}
    ELSE IF fn = "env_update_dates_for_restart_update"
    THEN {"START_DATE", "END_DATE", "SAVE_RESTART_DATE"}
    ELSE {"START_DATE", "END_DATE", "SAVE_RESTART_DATE", "FRCST_END_DATE"}

\* the resolution the workflows make for a mode: the checkpoint d, the
\* reference date ref (yesterday; in operational mode the agreed feed date,
\* which the gate lets through only when it is yesterday) and num_days n
Resolve(fn, d, ref, n, e) ==
    IF fn = "env_update_dates_for_testing"
    THEN env_update_dates_for_testing(d, e, n, ref)
    ELSE IF fn = "env_update_dates" THEN env_update_dates(d, ref, e)
    ELSE IF fn = "env_update_dates_for_restart_update"
    THEN env_update_dates_for_restart_update(d, e, ref)
    ELSE env_update_forecast_dates(d, e)

\* a dictionary as load_env_file returns it, no date key set
FreshEnv == EnvFile({}, None)

ResolveCheckpoints == {<<2024, 1, 10>>, <<2024, 2, 29>>}

ResolveCall(fn, d, ref, n, e) ==
    /\ call' = [NoCall EXCEPT !.fn = fn, !.restart_date = d, !.yesterday = ref,
                              !.num_days = n, !.env = e]
    /\ ret' = Resolve(fn, d, ref, n, e)
    /\ UNCHANGED runVars

\* a window is resolved on a fresh dictionary
ResolveWindow ==
    \E fn \in ResolveModes, d \in ResolveCheckpoints, ref \in Yesterdays,
       n \in NumDaysChoices :
        /\ call.fn = "none"
        /\ ResolveCall(fn, d, ref, n, FreshEnv)

\* a window is resolved on the dictionary the first resolution left
ResolveWindowAgain ==
    \E fn \in ResolveModes, d \in ResolveCheckpoints, ref \in Yesterdays,
       n \in NumDaysChoices :
        /\ call.fn \in ResolveModes
        /\ call.env = FreshEnv
        /\ ~ret.raised
        /\ ResolveCall(fn, d, ref, n, ret.env)

NextResolve ==
    \/ ResolveWindow
    \/ ResolveWindowAgain

SpecResolve == InitCalls /\ [][NextResolve]_vars

\* ------------------------------------------------------------------------
\* Specification of the ncf2cbh container's process
\* ------------------------------------------------------------------------

\* the highest ensemble number handed to ncf2cbh
MaxEnsemble == 1

ConvertModes == {"op", "median", "ensemble", "seasonal"}

\* the NetCDF files the working directory may hold
NcFiles == {NcFile(m, n) : m \in {"op", "median", "ensemble"}, n \in 0..MaxEnsemble}

ConvertFaults ==
    {NoFault, [at |-> "read", var |-> 0], [at |-> "nhm_id", var |-> 0]}
        \cup {[at |-> "write", var |-> k] : k \in 1..Len(CbhVars)}

\* python ncf2cbh.py <wdir> <prefix> <nhmid_dir> <mode> --ensemble <n>
CallNcf2cbh ==
    \E mode \in ConvertModes, n \in 0..MaxEnsemble, present \in SUBSET NcFiles,
       fault \in ConvertFaults :
        /\ call.fn = "none"
        /\ call' = [NoCall EXCEPT !.fn = "ncf2cbh", !.mode = mode,
                                  !.ensemble = n, !.present = present,
                                  !.fault = fault]
        /\ ret' = ncf2cbh_main(mode, n, present, fault)
        /\ UNCHANGED runVars

NextConvert == CallNcf2cbh

SpecConvert == InitCalls /\ [][NextConvert]_vars

\* ------------------------------------------------------------------------
\* Specification of build_images and build_image
\* ------------------------------------------------------------------------

\* the tags of build_images' components, in the order of the list
Components ==
    <<"nhmusgs/base", "nhmusgs/gridmetetl:0.30", "nhmusgs/ncf2cbh",
      "nhmusgs/prms:5.2.1", "nhmusgs/out2ncf", "nhmusgs/cfsv2etl">>

\* os.getenv('GITHUB_TOKEN'): unset, empty, set
TokenValues == {None, EmptyStr, PathVal}

\* how client.images.build ends: it returns, raises BuildError, raises
\* another exception
BuildResults == {"ok", "BuildError", "Exception"}

\* build_image: False without a client, without a token, and on every
\* exception of the build
build_image(client_ok, github_token, result) ==
    IF ~client_ok THEN FALSE
    ELSE IF Falsy(github_token) THEN FALSE
    ELSE result = "ok"

\* build_image(context_path, tag, no_cache) called on its own
CallBuildImage ==
    \E i \in 1..Len(Components), no_cache \in BOOLEAN, client_ok \in BOOLEAN,
       token \in TokenValues, result \in BuildResults :
        /\ pc = "idle"
        /\ call.fn = "none"
        /\ call' = [NoCall EXCEPT !.fn = "build_image", !.tag = Components[i],
                                  !.no_cache = no_cache,
                                  !.client_ok = client_ok,
                                  !.github_token = token, !.result = result]
        /\ ret' = [raised |-> FALSE,
                   value |-> build_image(client_ok, token, result)]
        /\ UNCHANGED runVars

\* build_images(no_cache) up to its loop
BuildImages ==
    \E no_cache \in BOOLEAN, client_ok \in BOOLEAN, token \in TokenValues :
        /\ pc = "idle"
        /\ call.fn = "none"
        /\ call' = [NoCall EXCEPT !.fn = "build_images", !.no_cache = no_cache,
                                  !.client_ok = client_ok,
                                  !.github_token = token]
        /\ cmd' = [NoCmd EXCEPT !.name = "build_images"]
        /\ client' = client_ok
        /\ stage' = 1
        /\ Running("build_loop")
        /\ UNCHANGED <<env, restart_date, gm, feeds, next_day, store, folders,
                       containers, lookup, trace, runs, ret>>

StopsBuildNever(success) == FALSE

\* "if not success: ... return"
StopsBuild(success) == ~success

\* one turn of build_images' loop; after the last component the success
\* message is logged and the function returns
BuildNext ==
    /\ pc = "build_loop"
    /\ \E result \in BuildResults :
         LET success == build_image(client, call.github_token, result)
         IN  /\ trace' = Append(trace, [kind |-> "build",
                                        name |-> Components[stage],
                                        prms |-> NoPrmsEnv,
                                        exit |-> IF success THEN 0 ELSE 1])
             /\ IF StopsBuild(success)
                THEN ReturnsToShell("build_stopped") /\ UNCHANGED stage
                ELSE IF stage = Len(Components)
                THEN ReturnsToShell("built") /\ UNCHANGED stage
                ELSE /\ stage' = stage + 1
                     /\ UNCHANGED <<pc, outcome, exit_code>>
    /\ UNCHANGED <<cmd, client, env, restart_date, gm, feeds, next_day, store,
                   folders, containers, lookup, runs, call, ret>>

NextBuild ==
    \/ CallBuildImage
    \/ BuildImages
    \/ BuildNext

SpecBuild == InitCalls /\ [][NextBuild]_vars

\* ------------------------------------------------------------------------
\* The calendar, day by day
\* ------------------------------------------------------------------------

\* day numbers beyond the end of a month carry into the following months
RECURSIVE CarryUp(_, _, _)
CarryUp(y, m, day) ==
    IF day <= DaysInMonth(y, m) THEN <<y, m, day>>
    ELSE IF m < 12 THEN CarryUp(y, m + 1, day - DaysInMonth(y, m))
    ELSE CarryUp(y + 1, 1, day - DaysInMonth(y, m))

\* day numbers below 1 borrow from the preceding months
RECURSIVE BorrowDown(_, _, _)
BorrowDown(y, m, day) ==
    IF day >= 1 THEN <<y, m, day>>
    ELSE IF m > 1 THEN BorrowDown(y, m - 1, day + DaysInMonth(y, m - 1))
    ELSE BorrowDown(y - 1, 12, day + 31)

\* the date k days after d (before d when k < 0)
PlusDays(d, k) ==
    IF k >= 0 THEN CarryUp(d[1], d[2], d[3] + k)
    ELSE BorrowDown(d[1], d[2], d[3] + k)

NextDay(d) == PlusDays(d, 1)

TimeOf(d) == <<d[1], d[2], d[3], 0, 0, 0>>

Kinds(t) == [i \in 1..Len(t) |-> t[i].kind]
Names(t) == [i \in 1..Len(t) |-> t[i].name]

Finished(name) == pc = "exited" /\ cmd.name = name

\* ------------------------------------------------------------------------
\* Properties
\* ------------------------------------------------------------------------

\* C1: fail-fast. In every workflow a stage container that ended with a
\* non-zero exit code is the last stage of its invocation (every stage before
\* the last one ended with 0, and once the last one has failed the invocation
\* only waits for run_container's verdict or has exited), and every marker a
\* stage of the invocation wrote is still in its restart store.
C1_FailFast ==
    /\ \A i \in 1..Len(trace) - 1 : trace[i].exit = 0
    /\ (trace # << >> /\ Last(trace).exit > 0) => pc \in {"stage_wait", "exited"}
    /\ (trace # << >> /\ Last(trace).exit > 0 /\ pc = "exited")
           => outcome = "stage_failed"
    /\ \A i \in 1..Len(trace) :
           Saves(trace[i], trace[i].exit) =>
               trace[i].prms.PRMS_VAR_SAVE_FILE.date
                   \in store[trace[i].prms.PRMS_VAR_SAVE_FILE.track]

\* an operational run whose window simulation wrote its marker and whose
\* fourth stage then failed: the run exited with one stage never invoked
C1_Witness ==
    /\ Finished("run_operational")
    /\ Len(trace) = 4
    /\ trace[4].exit = 1
    /\ Saves(trace[3], trace[3].exit)
    /\ Len(Pipeline) = 5

\* C2: freshness gate. In an operational (non-test) run a stage container is
\* invoked only if each of the six feeds reported yesterday's date; in every
\* other case the run invokes no stage.
C2_FreshnessGate ==
    (cmd.name = "run_operational" /\ ~cmd.test /\ trace # << >>) =>
        /\ Len(feeds) = NumFeeds
        /\ \A i \in 1..NumFeeds : feeds[i] = Yesterday

C2_Witness ==
    /\ cmd.name = "run_operational" /\ ~cmd.test
    /\ trace # << >>
    /\ \A i \in 1..NumFeeds : feeds[i] = Yesterday

\* C3: for six answers that are each a date or a fetch failure,
\* gridmet_updated followed by check_consistency yields a proceeding status
\* iff all six dates are yesterday, and then the agreed date is yesterday.
C3_CheckProceedsIffAllYesterday ==
    (call.fn = "gridmet_updated"
        /\ \A i \in 1..NumFeeds : call.feeds[i] # Malformed) =>
        /\ ~ret.raised
        /\ ret.status = (\A i \in 1..NumFeeds : call.feeds[i] = call.yesterday)
        /\ ret.status => ret.date = call.yesterday

\* five feeds report yesterday and one the day before: not proceeding
C3_Witness ==
    /\ call.fn = "gridmet_updated"
    /\ call.yesterday = Day(0)
    /\ Cardinality({i \in 1..NumFeeds : call.feeds[i] = Day(0)}) = 5
    /\ Cardinality({i \in 1..NumFeeds : call.feeds[i] = Day(-1)}) = 1
    /\ ~ret.raised /\ ~ret.status

\* C4 as claimed: the process exits with status 0 only when the run completed,
\* and non-zero on every other outcome.
C4_ExitNonZeroUnlessCompleted ==
    pc = "exited" => (exit_code = 0 <=> outcome = "completed")

\* C5 as claimed: a forecast stage is invoked only after is_next_day_present
\* found the input folder of the day after the forecast checkpoint.
C5_ForecastOnlyIfNextDayPresent ==
    (cmd.name = "run_sub_seasonal" /\ trace # << >>) => next_day.state

\* C6: a completed operational run has invoked exactly gridmetetl, ncf2cbh,
\* prms (window), out2ncf, prms (catch-up), in this order, each ended with 0;
\* and in an operational run no stage is started while an earlier one has not
\* ended.
C6_OperationalStages ==
    /\ cmd.name = "run_operational" =>
           \A i \in 1..Len(trace) - 1 : trace[i].exit # -1
    /\ (Finished("run_operational") /\ outcome = "completed") =>
           /\ Kinds(trace) = <<"gridmetetl", "ncf2cbh", "prms_run", "out2ncf",
                               "prms_restart">>
           /\ Names(trace) = <<"gridmetetl", "ncf2cbh", "prms", "out2ncf", "prms">>
           /\ \A i \in 1..5 : trace[i].exit = 0
           /\ trace[3].prms.PRMS_END_TIME = TimeOf(env["END_DATE"])
           /\ trace[3].prms.PRMS_VAR_SAVE_FILE.track = "forecast"
           /\ trace[5].prms.PRMS_END_TIME = TimeOf(env["SAVE_RESTART_DATE"])
           /\ trace[5].prms.PRMS_VAR_SAVE_FILE.track = "daily"

C6_Witness ==
    /\ Finished("run_operational") /\ outcome = "completed" /\ ~cmd.test
    /\ Len(trace) = 5

\* C7: a completed update_operational_restart run has invoked exactly
\* gridmetetl, ncf2cbh, prms (restart-only), out2ncf, in this order.
C7_RestartAdvanceStages ==
    (Finished("update_operational_restart") /\ outcome = "completed") =>
        /\ Kinds(trace) = <<"gridmetetl", "ncf2cbh", "prms_restart", "out2ncf">>
        /\ Names(trace) = <<"gridmetetl", "ncf2cbh", "prms", "out2ncf">>
        /\ \A i \in 1..4 : trace[i].exit = 0
        /\ trace[3].prms.PRMS_END_TIME = TimeOf(env["SAVE_RESTART_DATE"])
        /\ trace[3].prms.PRMS_VAR_SAVE_FILE =
               RestartFile(PathVal, "daily", env["SAVE_RESTART_DATE"])

C7_Witness ==
    /\ Finished("update_operational_restart") /\ outcome = "completed"
    /\ Len(trace) = 4

\* C8: a completed forecast run of method median has invoked exactly ncf2cbh,
\* prms, out2ncf, in this order; its prms is initialised from the saved
\* restart state of the forecast checkpoint and runs from FRCST_START_DATE to
\* FRCST_END_DATE.
C8_MedianForecastStages ==
    (Finished("run_sub_seasonal") /\ outcome = "completed"
        /\ cmd.method = "median") =>
        /\ Kinds(trace) = <<"ncf2cbh_median", "prms_forecast", "out2ncf_median">>
        /\ Names(trace) = <<"ncf2cbh", "prms", "out2ncf">>
        /\ \A i \in 1..3 : trace[i].exit = 0
        /\ trace[2].prms.PRMS_INIT_VARS_FROM_FILE = 1
        /\ trace[2].prms.PRMS_VAR_INIT_FILE =
               RestartFile(PathVal, "forecast", restart_date)
        /\ restart_date \in store["forecast"]
        /\ trace[2].prms.PRMS_START_TIME = TimeOf(env["FRCST_START_DATE"])
        /\ trace[2].prms.PRMS_END_TIME = TimeOf(env["FRCST_END_DATE"])
        /\ env["FRCST_START_DATE"] = NextDay(restart_date)

C8_Witness ==
    /\ Finished("run_sub_seasonal") /\ outcome = "completed"
    /\ cmd.method = "median"
    /\ Len(trace) = 3

\* C9: for a checkpoint d and an agreed feed date e = d + k, k > 0,
\* env_update_dates sets START_DATE = d + 1 day, END_DATE = e,
\* SAVE_RESTART_DATE = e - 59 days and FRCST_END_DATE = e + 29 days.
C9_OperationalWindow ==
    (call.fn = "env_update_dates" /\ call.restart_date # None) =>
        /\ ~ret.raised
        /\ \E k \in 1..MaxAhead : call.end_date = PlusDays(call.restart_date, k)
        /\ ret.env["START_DATE"] = NextDay(call.restart_date)
        /\ ret.env["END_DATE"] = call.end_date
        /\ ret.env["SAVE_RESTART_DATE"] = PlusDays(call.end_date, -59)
        /\ ret.env["FRCST_END_DATE"] = PlusDays(call.end_date, 29)

\* a window that starts on new year's day and whose SAVE_RESTART_DATE and
\* FRCST_END_DATE lie in other months
C9_Witness ==
    /\ call.fn = "env_update_dates"
    /\ call.restart_date = <<2023, 12, 31>>
    /\ call.end_date = <<2024, 1, 3>>
    /\ ret.env["START_DATE"] = <<2024, 1, 1>>
    /\ ret.env["SAVE_RESTART_DATE"] = <<2023, 11, 5>>
    /\ ret.env["FRCST_END_DATE"] = <<2024, 2, 1>>

C11_RestartAdvanceWindow ==
    (call.fn = "env_update_dates_for_restart_update"
        /\ call.restart_date # None) =>
        /\ ~ret.raised
        /\ ret.env["START_DATE"] = NextDay(call.restart_date)
        /\ ret.env["SAVE_RESTART_DATE"] = PlusDays(call.yesterday, -59)
        /\ ret.env["END_DATE"] = ret.env["SAVE_RESTART_DATE"]
        /\ \A d \in Checkpoints :
               LET o == env_update_dates_for_restart_update(d, call.env,
                                                           call.yesterday).env
               IN  /\ o["SAVE_RESTART_DATE"] = ret.env["SAVE_RESTART_DATE"]
                   /\ o["END_DATE"] = ret.env["END_DATE"]

\* checkpoint 2024-02-29 with yesterday 2024-03-01: the window starts on
\* 2024-03-01 and ends on 2024-01-02, before the checkpoint
C11_Witness ==
    /\ call.fn = "env_update_dates_for_restart_update"
    /\ call.restart_date = <<2024, 2, 29>>
    /\ call.yesterday = <<2024, 3, 1>>
    /\ ret.env["START_DATE"] = <<2024, 3, 1>>
    /\ ret.env["SAVE_RESTART_DATE"] = <<2024, 1, 2>>
    /\ ret.env["END_DATE"] = <<2024, 1, 2>>

\* C12: the forecast workflow resolves its window from the newest marker c of
\* the forecast track's restart store: FRCST_START_DATE = c + 1 day and
\* FRCST_END_DATE = FRCST_START_DATE + 27 days.
C12_ForecastWindow ==
    (cmd.name = "run_sub_seasonal" /\ env["FRCST_START_DATE"] # None) =>
        /\ restart_date \in store["forecast"]
        /\ \A o \in store["forecast"] : ~StrLess(restart_date, o)
        /\ env["FRCST_RESTART_DATE"] = restart_date
        /\ env["FRCST_START_DATE"] = NextDay(restart_date)
        /\ env["FRCST_END_DATE"] = PlusDays(env["FRCST_START_DATE"], 27)

\* the forecast track's checkpoint is 2023-12-31 while the operational
\* track's is 2024-01-01: the forecast runs 2024-01-01 .. 2024-01-28
C12_Witness ==
    /\ cmd.name = "run_sub_seasonal"
    /\ store["daily"] = {<<2024, 1, 1>>}
    /\ restart_date = <<2023, 12, 31>>
    /\ env["FRCST_START_DATE"] = <<2024, 1, 1>>
    /\ env["FRCST_END_DATE"] = <<2024, 1, 28>>

\* C13 as claimed: the window values a mode resolves from (checkpoint,
\* reference date) are those it resolves from the same inputs on a fresh
\* dictionary, whatever an earlier resolution left in env_vars.
C13_WindowIndependentOfEnvVars ==
    (call.fn \in ResolveModes /\ ~ret.raised) =>
        \A k \in WindowKeys(call.fn) :
            ret.env[k] = Resolve(call.fn, call.restart_date, call.yesterday,
                                 call.num_days, FreshEnv).env[k]

\* C14: for a list of available dates A and a reference date r,
\* is_next_day_present returns (True, r + 1 day) when r + 1 day is in A and
\* (False, None) when it is not.
C14_NextDayPresent ==
    call.fn = "is_next_day_present" =>
        /\ ~ret.raised
        /\ ret.state = (NextDay(call.restart_date) \in SeqSet(call.date_folders))
        /\ ret.date = IF NextDay(call.restart_date) \in SeqSet(call.date_folders)
                      THEN NextDay(call.restart_date)
                      ELSE None

\* A = {2024-03-05} and r = 2024-03-01: (False, None)
C14_Witness ==
    /\ call.fn = "is_next_day_present"
    /\ call.restart_date = <<2024, 3, 1>>
    /\ call.date_folders = << <<2024, 3, 5>> >>
    /\ ret.state = FALSE
    /\ ret.date = None

\* C15: in every workflow the stage containers are reached only with a
\* checkpoint the lookup found in the workflow's restart store; with an empty
\* store the run invokes no stage.
C15_NoCheckpointNoStage ==
    cmd.name # "none" =>
        /\ (pc \in {"stage_start", "stage_wait"} \/ trace # << >>)
               => restart_date \in store[Track]
        /\ store[Track] = {} =>
               (pc \notin {"stage_start", "stage_wait"} /\ trace = << >>)

\* a forecast run whose lookup container ran on an empty forecast store: the
\* run has ended and no stage was invoked
C15_Witness ==
    /\ Finished("run_sub_seasonal")
    /\ client /\ env["PROJECT_ROOT"] # None
    /\ store["forecast"] = {}
    /\ restart_date = None
    /\ env["FRCST_START_DATE"] = None
    /\ trace = << >>

\* C16 as claimed: when the lookup's output is empty, get_latest_restart_date
\* raises to its caller, so the workflow ends in the caller's handling of the
\* exception.
C16_LookupRaisesWhenEmpty ==
    [][(pc = "lookup_logs" /\ pc' # "lookup_logs" /\ restart_date' = None)
           => (pc' = "exited"
                  /\ outcome' \in {"lookup_error", "uncaught_exception"})]_vars

\* C17 as claimed: a run whose env_vars lack a value a stage's configuration
\* needs (PROJECT_ROOT or OP_DIR in the operational workflows, PROJECT_ROOT or
\* CFSV2_NCF_ENSEMBLE_MED_IDIR in the forecast workflow) invokes no stage.
C17_IncompleteContextNoStage ==
    /\ (cmd.name \in {"run_operational", "update_operational_restart"}
           /\ (env["PROJECT_ROOT"] = None \/ env["OP_DIR"] = None))
           => trace = << >>
    /\ (cmd.name = "run_sub_seasonal"
           /\ (env["PROJECT_ROOT"] = None
                  \/ env["CFSV2_NCF_ENSEMBLE_MED_IDIR"] = None))
           => trace = << >>

\* C18: in every pipeline subcommand, when DockerManager() left client = None
\* the run ends before the stage containers: no stage is reached or invoked.
C18_NoClientNoStage ==
    (cmd.name # "none" /\ ~client) =>
        (pc \notin {"stage_start", "stage_wait"} /\ trace = << >>)

\* update_operational_restart without a client: the subcommand only prints
\* the failure and goes on, the lookup returns None and the date resolution
\* ends the run
C18_Witness ==
    /\ Finished("update_operational_restart")
    /\ ~client
    /\ env["PROJECT_ROOT"] # None
    /\ restart_date = None
    /\ outcome = "dates_error"
    /\ trace = << >>

\* C19: run_container never issues the runtime's run for a name that is in
\* use: whenever a stage is about to be run, no container of its name is left
\* at the moment the run is issued, whatever state one was in before, and no
\* invocation ends on a name conflict.
C19_NoNameConflict ==
    /\ outcome # "name_conflict"
    /\ pc = "stage_start" =>
           BeforeRun(containers, ContainerName(Pipeline[stage]))
               [ContainerName(Pipeline[stage])] = "absent"

\* the first invocation on the runtime where a killed invocation had left
\* prms running and gridmetetl and ncf2cbh exited: its third stage runs under
\* the name prms
C19_Witness ==
    /\ runs = 1
    /\ cmd.name = "update_operational_restart"
    /\ {Day(-61), Day(-60)} \subseteq store["daily"]
    /\ pc = "stage_wait"
    /\ Len(trace) = 3
    /\ trace[1].exit = 0 /\ trace[2].exit = 0
    /\ trace[3].name = "prms" /\ trace[3].exit = -1
    /\ containers["prms"] = "running"

\* C20: of the stage containers an invocation started at most one is alive,
\* the last one; of the names the invocation has used at most one container
\* is running.
C20_OneStageAtATime ==
    /\ \A i \in 1..Len(trace) :
           trace[i].exit = -1 =>
               (i = Len(trace) /\ containers[trace[i].name] = "running")
    /\ Cardinality({n \in ContainerNames :
                       /\ containers[n] = "running"
                       /\ \E i \in 1..Len(trace) : trace[i].name = n}) <= 1
    /\ \A i \in 1..Len(trace) : \A j \in 1..Len(trace) :
           (i < j /\ trace[i].name = trace[j].name) => trace[i].exit # -1

\* the catch-up simulation of an operational run is running under the name
\* prms, which the window simulation used before it
C20_Witness ==
    /\ cmd.name = "run_operational"
    /\ pc = "stage_wait"
    /\ Len(trace) = 5
    /\ trace[3].name = "prms" /\ trace[3].exit = 0
    /\ trace[5].name = "prms" /\ trace[5].exit = -1
    /\ containers["prms"] = "running"

\* C21: operational_run reports its containers as executed successfully, and
\* the process then ends normally, only when every stage container it invoked
\* ended with exit code 0; once a stage has ended with another exit code the
\* run can only end as failed, with exit status 1.
C21_CompletedOnlyIfAllZero ==
    /\ (Finished("run_operational") /\ outcome = "completed") =>
           /\ trace # << >>
           /\ \A i \in 1..Len(trace) : trace[i].exit = 0
           /\ exit_code = 0
    /\ (Finished("run_operational") /\ \E i \in 1..Len(trace) : trace[i].exit > 0)
           => (outcome = "stage_failed" /\ exit_code = 1)

\* a test run with num_days 1 has completed: its five stages ended with 0
C21_Witness ==
    /\ Finished("run_operational") /\ cmd.test /\ cmd.num_days = 1
    /\ outcome = "completed" /\ exit_code = 0
    /\ Len(trace) = 5
    /\ \A i \in 1..5 : trace[i].exit = 0

\* the stage containers of the invocation that are simulations ended with 0
SimulatedWell == {i \in 1..Len(trace) : trace[i].name = "prms" /\ trace[i].exit = 0}

LookupCompleted == pc \notin {"lookup_run", "lookup_logs"} /\ lookup = "none"
FeedsQueried == feeds # << >>
FeedCheckCompleted ==
    /\ pc \notin {"op_gridmet", "op_consistency"}
    /\ Len(gm.status_list) = NumFeeds
    /\ check_consistency(gm.status_list, gm.date_list).status = TRUE
WindowTouched ==
    \E k \in {"RESTART_DATE", "START_DATE", "END_DATE", "SAVE_RESTART_DATE",
               "NEW_RESTART_DATE"} : env[k] # None
WindowCommitted ==
    \A k \in {"START_DATE", "END_DATE", "SAVE_RESTART_DATE", "NEW_RESTART_DATE"} :
        IsDateStr(env[k])

\* C23: in an operational run the feeds are queried only after the lookup of
\* the checkpoint has returned, a window date is written only after the feed
\* check has passed, and a stage is reached only with the whole window
\* written and with a checkpoint that the lookup found in the store; a test
\* run writes its window after the lookup and reaches the stages after that.
C23_CheckpointThenVerifyThenExecute ==
    cmd.name = "run_operational" =>
        /\ FeedsQueried => (LookupCompleted /\ ~cmd.test)
        /\ WindowTouched => LookupCompleted
        /\ (WindowTouched /\ ~cmd.test) => (FeedsQueried /\ FeedCheckCompleted)
        /\ (pc \in {"stage_start", "stage_wait"} \/ trace # << >>) =>
               /\ WindowCommitted
               /\ LookupCompleted
               /\ restart_date \in store["daily"]
               /\ env["NEW_RESTART_DATE"] = restart_date

\* the first stage of an operational run has just been invoked: the six
\* feeds had agreed on yesterday and the window ends yesterday
C23_Witness ==
    /\ cmd.name = "run_operational" /\ ~cmd.test
    /\ pc = "stage_wait"
    /\ Len(trace) = 1 /\ trace[1].kind = "gridmetetl" /\ trace[1].exit = -1
    /\ restart_date = Day(-60)
    /\ gm.date_list = [i \in 1..NumFeeds |-> Day(0)]
    /\ env["START_DATE"] = Day(-59)
    /\ env["END_DATE"] = Day(0)

\* C24: within one invocation no stage descriptor is invoked twice and
\* nothing is invoked after a stage that ended non-zero; the lookup of the
\* checkpoint is started only as the first step of the subcommand, and the
\* six feeds are answered in one pass, once.
C24_NoAutomaticRetry ==
    /\ [](\A i \in 1..Len(trace) : \A j \in 1..Len(trace) :
              (trace[i].kind = trace[j].kind) => (i = j))
    /\ [](\A i \in 1..Len(trace) : (trace[i].exit > 0) => (i = Len(trace)))
    /\ [](Len(feeds) \in {0, NumFeeds})
    /\ [][
           /\ (Len(trace') > Len(trace)) =>
                  (\A i \in 1..Len(trace) : trace[i].exit = 0)
           /\ (pc' = "lookup_run") => (pc = "idle")
           /\ (lookup' = "started") => (pc = "lookup_run" /\ lookup = "none")
           /\ (feeds' # feeds) =>
                  (\/ feeds = << >> /\ pc = "op_gridmet" /\ pc' # "op_gridmet"
                   \/ feeds' = << >> /\ pc' = "idle")
       ]_vars

\* a restart-only advance whose second stage ended with 1: the run has exited
\* with exactly two stages invoked
C24_Witness ==
    /\ Finished("update_operational_restart")
    /\ outcome = "stage_failed"
    /\ Kinds(trace) = <<"gridmetetl", "ncf2cbh">>
    /\ trace[1].exit = 0 /\ trace[2].exit = 1

\* C25 as claimed: whatever a feed answers, gridmet_updated does not raise; it
\* records all six feeds, and a feed whose answer yields no date is recorded
\* with status False.
C25_FeedFailuresRecorded ==
    call.fn = "gridmet_updated" =>
        LET g == gridmet_updated(call.feeds, call.yesterday)
        IN  /\ ~g.raised
            /\ ~ret.raised
            /\ Len(g.status_list) = NumFeeds
            /\ \A i \in 1..NumFeeds :
                   ~IsDateStr(call.feeds[i]) => g.status_list[i] = FALSE

\* C26: get_latest_restart_date called with a mode other than "op" and
\* "forecast" raises ValueError, and forecast_run called with a method other
\* than "median" and "ensemble" ends the run as an invalid method (when the
\* env file could be loaded, so that forecast_run was called at all); in the
\* step in which either is rejected no container is stopped, removed or
\* started and nothing else of the runtime or the volume changes.
C26_InvalidModeRejectedFirst ==
    /\ []((call.fn = "get_latest_restart_date"
               /\ call.mode \notin {"op", "forecast"})
              => (ret.raised /\ ret.error = "ValueError"
                     /\ pc # "direct_lookup"))
    /\ []((cmd.name = "run_sub_seasonal"
               /\ cmd.method \notin {"median", "ensemble"})
              => (pc = "exited"
                     /\ outcome \in {"invalid_method", "env_file_error"}
                     /\ trace = << >> /\ lookup = "none"
                     /\ restart_date = None))
    /\ [][
           (\/ call.fn = "none" /\ call'.fn = "get_latest_restart_date"
                  /\ call'.mode \notin {"op", "forecast"}
            \/ pc = "idle" /\ cmd'.name = "run_sub_seasonal"
                  /\ cmd'.method \notin {"median", "ensemble"})
           => (/\ containers' = containers
               /\ lookup' = lookup
               /\ store' = store
               /\ folders' = folders
               /\ trace' = trace)
       ]_vars

\* get_latest_restart_date was called with mode "median" on the runtime where
\* a prms container is running: the call raised, the container still runs
\* and no lookup container exists
C26_Witness ==
    /\ call.fn = "get_latest_restart_date"
    /\ call.mode = "median"
    /\ ret.raised
    /\ runs = 0 /\ pc = "idle"
    /\ containers = LeftByKilledRun
    /\ lookup = "none"

\* C27: the time fields every simulation stage was handed are the window
\* dates of env_vars followed by ,00,00,00: START_DATE and END_DATE for the
\* operational simulation, START_DATE and SAVE_RESTART_DATE for the
\* restart / catch-up simulation, FRCST_START_DATE and FRCST_END_DATE for the
\* forecast simulation.
C27_TimeFieldsRendered ==
    \A i \in 1..Len(trace) :
        LET t == trace[i].prms
        IN  /\ trace[i].kind = "prms_run" =>
                   /\ IsDateStr(env["START_DATE"]) /\ IsDateStr(env["END_DATE"])
                   /\ t.PRMS_START_TIME = TimeOf(env["START_DATE"])
                   /\ t.PRMS_END_TIME = TimeOf(env["END_DATE"])
            /\ trace[i].kind = "prms_restart" =>
                   /\ IsDateStr(env["START_DATE"])
                   /\ IsDateStr(env["SAVE_RESTART_DATE"])
                   /\ t.PRMS_START_TIME = TimeOf(env["START_DATE"])
                   /\ t.PRMS_END_TIME = TimeOf(env["SAVE_RESTART_DATE"])
            /\ trace[i].kind = "prms_forecast" =>
                   /\ IsDateStr(env["FRCST_START_DATE"])
                   /\ IsDateStr(env["FRCST_END_DATE"])
                   /\ t.PRMS_START_TIME = TimeOf(env["FRCST_START_DATE"])
                   /\ t.PRMS_END_TIME = TimeOf(env["FRCST_END_DATE"])

\* the catch-up simulation of an operational run from checkpoint 2024-01-01
\* with yesterday 2024-03-01 is running: the window simulation ran to
\* 2024,03,01,00,00,00 and the catch-up runs to 2024,01,02,00,00,00
C27_Witness ==
    /\ cmd.name = "run_operational" /\ ~cmd.test
    /\ restart_date = <<2024, 1, 1>>
    /\ Len(trace) = 5
    /\ trace[3].prms.PRMS_START_TIME = <<2024, 1, 2, 0, 0, 0>>
    /\ trace[3].prms.PRMS_END_TIME = <<2024, 3, 1, 0, 0, 0>>
    /\ trace[5].kind = "prms_restart"
    /\ trace[5].prms.PRMS_START_TIME = <<2024, 1, 2, 0, 0, 0>>
    /\ trace[5].prms.PRMS_END_TIME = <<2024, 1, 2, 0, 0, 0>>

\* C28 as claimed: when the pipeline's lines are all read, list_date_folders
\* returns exactly the names of the directories of the path that match
\* YYYY-MM-DD, and nothing at all when none matches.
C28_ListsExactlyDateFolders ==
    (call.fn = "list_date_folders" /\ call.printed) =>
        SeqSet(ret.value) =
            {call.entries[i].name : i \in {j \in 1..Len(call.entries) :
                /\ call.entries[j].is_dir
                /\ Len(call.entries[j].name) = 3}}

\* C29 as claimed: in a completed operational (non-test) run both simulations
\* were initialised from the daily marker of the run's checkpoint, the first
\* wrote the forecast marker dated END_DATE, the second wrote the daily marker
\* dated SAVE_RESTART_DATE = END_DATE - 59 days, and that marker is the
\* newest of the daily store, the one the next lookup returns.
C29_CatchUpMarkerIsNextCheckpoint ==
    (Finished("run_operational") /\ outcome = "completed" /\ ~cmd.test) =>
        /\ trace[3].prms.PRMS_VAR_INIT_FILE =
               RestartFile(PathVal, "daily", restart_date)
        /\ trace[5].prms.PRMS_VAR_INIT_FILE =
               RestartFile(PathVal, "daily", restart_date)
        /\ trace[3].prms.PRMS_VAR_SAVE_FILE =
               RestartFile(PathVal, "forecast", env["END_DATE"])
        /\ env["END_DATE"] \in store["forecast"]
        /\ trace[5].prms.PRMS_VAR_SAVE_FILE =
               RestartFile(PathVal, "daily", env["SAVE_RESTART_DATE"])
        /\ env["SAVE_RESTART_DATE"] = PlusDays(env["END_DATE"], -59)
        /\ env["SAVE_RESTART_DATE"] \in store["daily"]
        /\ Newest(store["daily"]) = env["SAVE_RESTART_DATE"]

\* C30: in a test run of run_operational and in update_operational_restart
\* the feeds are never queried: from the start of the run to its end no feed
\* has answered and nothing of gridmet_updated has been computed, and the
\* stages are reached without it.
C30_GateInOperationalModeOnly ==
    ((cmd.name = "run_operational" /\ cmd.test)
        \/ cmd.name = "update_operational_restart") =>
        /\ feeds = << >>
        /\ gm = NoGm
        /\ pc \notin {"op_gridmet", "op_consistency"}
        /\ outcome # "not_updated"

\* a test run is waiting for its second stage: no feed was queried
C30_Witness ==
    /\ cmd.name = "run_operational" /\ cmd.test
    /\ pc = "stage_wait"
    /\ Kinds(trace) = <<"gridmetetl", "ncf2cbh">>
    /\ trace[2].exit = -1
    /\ feeds = << >>

\* "YYYY,MM,DD,00,00,00" a is not later than b (both rendered)
NotLater(a, b) == (Len(a) = 6 /\ Len(b) = 6) => ~StrLess(b, a)

Simulations == {"prms_run", "prms_restart", "prms_forecast"}

\* C31 as claimed: every simulation that was invoked, in every workflow, was
\* given a start time not later than its end time (PRMS_START_TIME <=
\* PRMS_END_TIME: START_DATE..END_DATE for the window simulation,
\* START_DATE..SAVE_RESTART_DATE for the catch-up and the restart-only one).
C31_SimulateWindowOrdered ==
    \A i \in 1..Len(trace) :
        trace[i].kind \in Simulations =>
            NotLater(trace[i].prms.PRMS_START_TIME, trace[i].prms.PRMS_END_TIME)

\* C32 as claimed: whenever the restart store of the run's track holds a
\* marker, the lookup hands its caller the date of the newest marker, however
\* the detached lookup container's execution interleaves with the reading of
\* its logs and its removal.
C32_LookupIndependentOfTiming ==
    [][(pc = "lookup_logs" /\ pc' # "lookup_logs" /\ store[Track] # {})
           => restart_date' = Newest(store[Track])]_vars

\* d is a marker of S and no marker of S is later
LatestOf(d, S) == d \in S /\ \A o \in S : ~StrLess(d, o)

\* C33: over any sequence of runs the operational checkpoint a run discovers
\* is never earlier than the one any previous run discovered: a discovered
\* checkpoint is a marker of the daily store with no later marker beside it,
\* and no step of any workflow, completed or aborted, takes a marker out of a
\* store, so every marker an earlier run discovered is still there to be
\* compared with.
C33_CheckpointNeverGoesBack ==
    [][
        /\ (pc = "lookup_logs" /\ Track = "daily" /\ IsDateStr(restart_date'))
               => LatestOf(restart_date', store'["daily"])
        /\ store["daily"] \subseteq store'["daily"]
        /\ store["forecast"] \subseteq store'["forecast"]
    ]_vars

\* a second run has discovered a checkpoint that an earlier run wrote: it is
\* later than every marker the volume started with
C33_Witness ==
    /\ runs = 2
    /\ cmd.name \in {"run_operational", "update_operational_restart"}
    /\ pc = "stage_start"
    /\ IsDateStr(restart_date)
    /\ StrLess(Day(-60), restart_date)
    /\ LatestOf(restart_date, store["daily"])
    /\ Cardinality(store["daily"]) > 1

AllExitedZero(t) == \A i \in 1..Len(t) : t[i].exit = 0

\* C34: in run_operational the daily store changes only in the step in which
\* the catch-up simulation, the fifth stage after gridmetetl, ncf2cbh, the
\* window simulation and out2ncf all ended with 0, ends with 0 itself. Once
\* the window simulation has ended with 0 the forecast store holds the marker
\* dated END_DATE, and until the catch-up simulation has ended with 0 the
\* newest marker of the daily store is still the checkpoint the run
\* discovered, also when the run is aborted in between.
C34_OperationalCheckpointNeedsAllStages ==
    /\ [](cmd.name = "run_operational" =>
            /\ (Len(trace) >= 3 /\ trace[3].exit = 0) =>
                  /\ trace[3].prms.PRMS_VAR_SAVE_FILE =
                         RestartFile(PathVal, "forecast", env["END_DATE"])
                  /\ env["END_DATE"] \in store["forecast"]
            /\ (trace # << >> /\ ~(Len(trace) = 5 /\ trace[5].exit = 0)) =>
                  LatestOf(restart_date, store["daily"]))
    /\ [][(cmd.name = "run_operational" /\ store'["daily"] # store["daily"]) =>
            /\ Kinds(trace') = OpPipeline
            /\ AllExitedZero(trace')
            /\ trace[5].exit = -1]_vars

\* run_operational was aborted by out2ncf after the window simulation had
\* ended with 0: the forecast marker of END_DATE is there, the newest daily
\* marker is the checkpoint of the run
C34_Witness ==
    /\ Finished("run_operational")
    /\ outcome = "stage_failed"
    /\ Kinds(trace) = <<"gridmetetl", "ncf2cbh", "prms_run", "out2ncf">>
    /\ trace[3].exit = 0
    /\ trace[4].exit = 1
    /\ env["END_DATE"] \in store["forecast"]
    /\ restart_date = Newest(store["daily"])

\* C35: run_sub_seasonal never advances a checkpoint. Every simulation it
\* starts is configured with PRMS_SAVE_VARS_TO_FILE = 0 and no save file, and
\* from the start of the run to its end, completed or aborted, no step
\* changes the daily or the forecast restart store.
C35_ForecastRunSavesNoCheckpoint ==
    /\ [](cmd.name = "run_sub_seasonal" =>
            \A i \in 1..Len(trace) :
                trace[i].kind \in Simulations =>
                    /\ trace[i].kind = "prms_forecast"
                    /\ trace[i].prms.PRMS_SAVE_VARS_TO_FILE = 0
                    /\ trace[i].prms.PRMS_VAR_SAVE_FILE = NoFile)
    /\ [][(cmd.name = "run_sub_seasonal" \/ cmd'.name = "run_sub_seasonal")
              => store' = store]_vars

\* the forecast simulation of a median run has ended with 0, initialised from
\* the newest forecast marker, and the run went on to out2ncf
C35_Witness ==
    /\ cmd.name = "run_sub_seasonal"
    /\ cmd.method = "median"
    /\ Len(trace) = 3
    /\ trace[2].kind = "prms_forecast"
    /\ trace[2].exit = 0
    /\ trace[2].prms.PRMS_VAR_INIT_FILE =
           RestartFile(PathVal, "forecast", Newest(store["forecast"]))
    /\ trace[2].prms.PRMS_SAVE_VARS_TO_FILE = 0

EnsembleRun == cmd.name = "run_sub_seasonal" /\ cmd.method = "ensemble"

C37_ConvertFailureExitsNonZero ==
    call.fn = "ncf2cbh" => (ret.cbh # CbhVars => ret.exit_code # 0)

\* C38: build_images builds base, gridmetetl, ncf2cbh, prms, out2ncf and
\* cfsv2etl in this order; a build that failed is the last one attempted;
\* the function ends either stopped by a failed build or, reporting success,
\* after six builds that all succeeded.
C38_BuildStopsAtFirstFailure ==
    cmd.name = "build_images" =>
        /\ Len(trace) <= 6
        /\ Names(trace) =
               SubSeq(<<"nhmusgs/base", "nhmusgs/gridmetetl:0.30",
                        "nhmusgs/ncf2cbh", "nhmusgs/prms:5.2.1",
                        "nhmusgs/out2ncf", "nhmusgs/cfsv2etl">>, 1, Len(trace))
        /\ \A i \in 1..(Len(trace) - 1) : trace[i].exit = 0
        /\ pc = "exited" =>
              /\ outcome \in {"built", "build_stopped"}
              /\ outcome = "built" <=> (Len(trace) = 6 /\ AllExitedZero(trace))
              /\ outcome = "build_stopped" <=> Last(trace).exit = 1
        /\ pc # "exited" => (outcome = "running" /\ AllExitedZero(trace))

\* the build of the third image failed after base and gridmetetl were
\* built: build_images has returned without attempting prms, out2ncf, cfsv2etl
C38_Witness ==
    /\ cmd.name = "build_images"
    /\ pc = "exited"
    /\ outcome = "build_stopped"
    /\ Names(trace) = <<"nhmusgs/base", "nhmusgs/gridmetetl:0.30",
                        "nhmusgs/ncf2cbh">>
    /\ trace[3].exit = 1

====
